---- MODULE Spec2Model ----
(***************************************************************************)
(* A model of the time-tracking parser: the 12-hour Time type, the line    *)
(* scanner of parse_time_tracking_data, the validation passes, the         *)
(* aggregation into ProjectSummary values and the JSON interchange of the  *)
(* TimeTrackingData record.                                                *)
(*                                                                         *)
(* Text is a sequence of one-character strings.  Literal pieces of a       *)
(* formatted message are kept as one multi-character atom each.            *)
(***************************************************************************)
EXTENDS Integers, Sequences, FiniteSets, TLC

(* ----------------------------- bounds --------------------------------- *)

\* The longest input, in lines.
MaxLines == 3

(* ------------------------- characters and text ------------------------ *)

Digits == {"0", "1", "2", "3", "4", "5", "6", "7", "8", "9"}

\* char::is_numeric: the digits, and the other numeric characters (the
\* fraction one half stands for them; it is no digit of a number).
Numeric == Digits \cup {"½"}

Lowercase == {"a", "b", "m", "n", "x"}

Uppercase == {"B", "E"}

DigitVal(c) ==
    CASE c = "0" -> 0 [] c = "1" -> 1 [] c = "2" -> 2 [] c = "3" -> 3
      [] c = "4" -> 4 [] c = "5" -> 5 [] c = "6" -> 6 [] c = "7" -> 7
      [] c = "8" -> 8 [] c = "9" -> 9

DigitChar(d) ==
    CASE d = 0 -> "0" [] d = 1 -> "1" [] d = 2 -> "2" [] d = 3 -> "3"
      [] d = 4 -> "4" [] d = 5 -> "5" [] d = 6 -> "6" [] d = 7 -> "7"
      [] d = 8 -> "8" [] d = 9 -> "9"

\* char::is_whitespace, on the characters of the model.
IsSpace(c) == c = " "

\* str::starts_with(&str)
starts_with(s, p) ==
    /\ Len(p) <= Len(s)
    /\ SubSeq(s, 1, Len(p)) = p

\* str::starts_with(char::is_numeric) and friends
starts_with_in(s, class) == Len(s) > 0 /\ s[1] \in class

RECURSIVE trim_start(_)
trim_start(s) ==
    IF Len(s) > 0 /\ IsSpace(s[1]) THEN trim_start(Tail(s)) ELSE s

RECURSIVE trim_end(_)
trim_end(s) ==
    IF Len(s) > 0 /\ IsSpace(s[Len(s)])
    THEN trim_end(SubSeq(s, 1, Len(s) - 1))
    ELSE s

\* str::trim
trim(s) == trim_end(trim_start(s))

\* The index of the first c in s, 0 when there is none.
RECURSIVE find_from(_, _, _)
find_from(s, c, i) ==
    IF i > Len(s) THEN 0
    ELSE IF s[i] = c THEN i
    ELSE find_from(s, c, i + 1)

find(s, c) == find_from(s, c, 1)

\* str::split(char): the pieces between every occurrence of c.
RECURSIVE split(_, _)
split(s, c) ==
    LET i == find(s, c)
    IN IF i = 0 THEN <<s>>
       ELSE <<SubSeq(s, 1, i - 1)>> \o split(SubSeq(s, i + 1, Len(s)), c)

\* str::splitn(2, char): split at the first c only.
splitn2(s, c) ==
    LET i == find(s, c)
    IN IF i = 0 THEN <<s>>
       ELSE <<SubSeq(s, 1, i - 1), SubSeq(s, i + 1, Len(s))>>

\* StripPrefixSuffixSane::strip_prefix_sane: the text without the prefix when
\* it starts with it, the text itself otherwise.
strip_prefix_sane(s, p) ==
    IF starts_with(s, p) THEN SubSeq(s, Len(p) + 1, Len(s)) ELSE s

\* Display of an unsigned integer.
RECURSIVE to_decimal(_)
to_decimal(n) ==
    IF n < 10 THEN <<DigitChar(n)>>
    ELSE to_decimal(n \div 10) \o <<DigitChar(n % 10)>>

\* {:02} of an unsigned integer.
to_decimal_02(n) == IF n < 10 THEN <<"0">> \o to_decimal(n) ELSE to_decimal(n)

(* ----------------------------- results -------------------------------- *)

Ok(v) == [ok |-> TRUE, val |-> v, err |-> <<>>]

Err(e) == [ok |-> FALSE, val |-> <<>>, err |-> e]

None == [some |-> FALSE, val |-> <<>>]

Some(v) == [some |-> TRUE, val |-> v]

(* ------------------------------ Time ---------------------------------- *)

\* str::parse::<u8>: an optional '+', then one or more digits, at most 255.
RECURSIVE digits_value(_)
digits_value(s) ==
    IF Len(s) = 0 THEN 0
    ELSE 10 * digits_value(SubSeq(s, 1, Len(s) - 1)) + DigitVal(s[Len(s)])

parse_u8(s) ==
    LET body == IF Len(s) > 1 /\ s[1] = "+" THEN Tail(s) ELSE s
    IN IF Len(body) = 0 \/ \E i \in 1..Len(body) : body[i] \notin Digits
       THEN Err(<<"invalid digit">>)
       ELSE IF Len(body) > 3 \/ digits_value(body) > 255
       THEN Err(<<"number too large to fit in target type">>)
       ELSE Ok(digits_value(body))

\* impl FromStr for Hour
Hour_from_str(s) ==
    LET hour == parse_u8(s)
    IN IF ~hour.ok THEN Err(<<"Invalid hour format: ">> \o s)
       ELSE IF ~(hour.val \in 0..12)
       THEN Err(<<"Hour must be between 0 and 12, got ">> \o to_decimal(hour.val))
       ELSE Ok(hour.val)

\* impl TryFrom<u8> for Hour
Hour_try_from(value) ==
    IF ~(value \in 0..12)
    THEN Err(<<"Hour must be between 0 and 12, got ">> \o to_decimal(value))
    ELSE Ok(value)

\* The nutype validation of Minute: the predicate (0..=59).contains(value).
Minute_try_new(value) ==
    IF value \in 0..59 THEN Ok(value)
    ELSE Err(<<"Minute failed the predicate test.">>)

\* impl FromStr for Minute
Minute_from_str(s) ==
    LET hour == parse_u8(s)
    IN IF ~hour.ok THEN Err(<<"Invalid hour format: ">> \o s)
       ELSE Minute_try_new(hour.val)

\* Time::from_strings
Time_from_strings(hour, minute) ==
    LET h == Hour_from_str(hour)
        m == Minute_from_str(minute)
    IN IF ~h.ok THEN Err(h.err)
       ELSE IF ~m.ok THEN Err(m.err)
       ELSE Ok([hour |-> h.val, minute |-> m.val])

\* Time::new
Time_new(hour, minute) ==
    IF ~(hour \in 1..12)
    THEN Err(<<"Hour must be between 1 and 12, got ">> \o to_decimal(hour))
    ELSE IF minute > 59
    THEN Err(<<"Minute must be between 0 and 59, got ">> \o to_decimal(minute))
    ELSE Ok([hour |-> Hour_try_from(hour).val, minute |-> Minute_try_new(minute).val])


\* A variant without the special case of hour 12.
to_minutes_without_noon(t) == (t.hour * 60) + t.minute

\* Time::to_minutes
to_minutes(t) ==
    LET hour_24 == IF t.hour = 12 THEN 0 ELSE t.hour
    IN (hour_24 * 60) + t.minute


\* A variant that wraps when the two times are equal.
Time_duration_minutes_strict(start, end) ==
    LET start_mins == to_minutes(start)
        end_mins == to_minutes(end)
    IN IF end_mins > start_mins
       THEN end_mins - start_mins
       ELSE (12 * 60) + end_mins - start_mins

\* Time::duration_minutes
Time_duration_minutes(start, end) ==
    LET start_mins == to_minutes(start)
        end_mins == to_minutes(end)
    IN IF end_mins >= start_mins
       THEN end_mins - start_mins
       ELSE (12 * 60) + end_mins - start_mins


\* A variant that never wraps: the distance between the two times.
chronological_duration_minutes_distance(start, end) ==
    LET start_mins == to_minutes(start)
        end_mins == to_minutes(end)
    IN IF end_mins > start_mins THEN end_mins - start_mins
       ELSE start_mins - end_mins

\* Time::chronological_duration_minutes
chronological_duration_minutes(start, end) ==
    LET start_mins == to_minutes(start)
        end_mins == to_minutes(end)
    IN IF end_mins > start_mins THEN end_mins - start_mins
       ELSE IF end_mins = start_mins THEN 0
       ELSE (12 * 60) - start_mins + end_mins

\* The cast `as u32` of an i32.  A negative operand would wrap to 2^32 - |x|,
\* which is outside the integers of the checker: the case is left undefined so
\* that reaching it stops the check.
as_u32(x) == CASE x >= 0 -> x

\* TimeEntry::duration_minutes
duration_minutes(entry) == as_u32(Time_duration_minutes(entry.start, entry.end))

\* format_time
format_time(time) ==
    IF time.minute = 0
    THEN to_decimal(time.hour) \o <<":00">>
    ELSE to_decimal(time.hour) \o <<":">> \o to_decimal_02(time.minute)

(* ------------------------- parsing one line --------------------------- *)

\* parse_time
parse_time(time_str) ==
    LET parts == split(time_str, ":")
    IN CASE Len(parts) = 1 -> Time_from_strings(parts[1], <<"0", "0">>)
         [] Len(parts) = 2 -> Time_from_strings(parts[1], parts[2])
         [] OTHER -> Err(<<"Invalid time format: ">> \o time_str)

\* parse_time_range
parse_time_range(range_str) ==
    LET parts == split(range_str, "-")
    IN IF Len(parts) # 2
       THEN Err(<<"Invalid time range format: ">> \o range_str)
       ELSE LET start == parse_time(trim(parts[1]))
                end == parse_time(trim(parts[2]))
            IN IF ~start.ok THEN Err(start.err)
               ELSE IF ~end.ok THEN Err(end.err)
               ELSE Ok([start |-> start.val, end |-> end.val])

\* The regular expression ^\d{1,2}(?::\d{2})?-\d{1,2}(?::\d{2})? matches at the
\* start of the line: one or two digits, optionally ':' and two digits, a '-',
\* then at least one digit (what follows the first digit is optional).
time_regex_is_match(line) ==
    \E k \in 1..2 : \E c \in {0, 3} :
        /\ Len(line) >= k + c + 2
        /\ \A i \in 1..k : line[i] \in Digits
        /\ c = 3 =>
            /\ line[k + 1] = ":"
            /\ line[k + 2] \in Digits
            /\ line[k + 3] \in Digits
        /\ line[k + c + 1] = "-"
        /\ line[k + c + 2] \in Digits



\* A variant that looks for a time range even when a prefix marker was given.
is_time_tracking_line_regex_only(line, prefix) == time_regex_is_match(line)

\* A variant in which, without a prefix marker, any line that begins with a
\* digit starts the tracking.
is_time_tracking_line_any_digit(line, prefix) ==
    IF prefix.some THEN starts_with(line, prefix.val)
    ELSE starts_with_in(line, Digits)

\* is_time_tracking_line
is_time_tracking_line(line, prefix) ==
    IF prefix.some THEN starts_with(line, prefix.val)
    ELSE time_regex_is_match(line)



\* A variant that goes on only over lines that begin with a number, a dash or
\* a space.
should_continue_parsing_no_letters(line, suffix) ==
    IF suffix.some THEN ~starts_with(line, suffix.val)
    ELSE \/ starts_with_in(line, Numeric)
         \/ starts_with(line, <<"-">>)
         \/ starts_with(line, <<" ">>)

\* A variant that applies the default heuristic even when a suffix marker was
\* given.
should_continue_parsing_heuristic_too(line, suffix) ==
    /\ suffix.some => ~starts_with(line, suffix.val)
    /\ \/ starts_with_in(line, Numeric)
       \/ starts_with(line, <<"-">>)
       \/ starts_with(line, <<" ">>)
       \/ starts_with(line, <<"*">>)
       \/ starts_with_in(line, Lowercase)
       \/ starts_with_in(line, Uppercase)

\* should_continue_parsing
should_continue_parsing(line, suffix) ==
    IF suffix.some THEN ~starts_with(line, suffix.val)
    ELSE \/ starts_with_in(line, Numeric)
         \/ starts_with(line, <<"-">>)
         \/ starts_with(line, <<" ">>)
         \/ starts_with(line, <<"*">>)
         \/ starts_with_in(line, Lowercase)
         \/ starts_with_in(line, Uppercase)


\* A variant that strips the first marker that matches, and no second one.
note_text_one_marker(line) ==
    trim(IF starts_with(line, <<"-">>)
         THEN strip_prefix_sane(line, <<"-">>)
         ELSE strip_prefix_sane(line, <<"*">>))

\* The text pushed onto the open entry's notes for a note line.
note_text(line) ==
    trim(strip_prefix_sane(strip_prefix_sane(line, <<"-">>), <<"*">>))

(* --------------------------- the input -------------------------------- *)

\* The lines an input is made of: labelled entries (one of more than six
\* hours, one with hour 0), an unlabelled entry, labelled entries whose time
\* range does not parse, notes, a blank line, a footer line and the two
\* marker lines.
LinePool ==
    { <<"7", "-", "8", " ", "a">>,
      <<"1", "2", ":", "3", "0", "-", "7", " ", "b">>,
      <<"0", "-", "1", " ", "x">>,
      <<"1", "1", "-", "1">>,
      <<"2", "5", "-", "2", "6", " ", "x">>,
      <<"7", ":", "7", "0", "-", "8", " ", "x">>,
      <<"7", "8", " ", "x">>,
      <<" ", "-", " ", "n">>,
      <<"*", "m">>,
      <<" ">>,
      <<"#", "f">>,
      <<"B">>,
      <<"E">> }

\* The texts given as prefix and suffix markers.
PrefixMarker == <<"B">>

SuffixMarker == <<"E">>

\* str::lines of the input text, of at most MaxLines lines.
Inputs == UNION { [1..n -> LinePool] : n \in 0..MaxLines }

(* ----------------------------- the state ------------------------------ *)

VARIABLES
    input,            \* the lines of the input text
    prefix,           \* Option<&str>
    suffix,           \* Option<&str>
    idx,              \* the lines the loop has taken from input.lines()
    parsing_started,
    current_entry,    \* Option<TimeEntry>
    entries,          \* Vec<TimeEntry>
    data,             \* the TimeTrackingData under construction, then returned
    phase,            \* "scan" in the loop, "done" once the record is returned
    json,             \* Option<String>: the text to_json produced
    restored          \* Option<TimeTrackingData>: what from_json returned

vars ==
    <<input, prefix, suffix, idx, parsing_started, current_entry, entries,
      data, phase, json, restored>>

\* TimeTrackingData::new
TimeTrackingData_new ==
    [ total_minutes |-> 0,
      dead_time_minutes |-> 0,
      projects |-> <<>>,
      warnings |-> <<>>,
      start_time |-> None,
      end_time |-> None ]

\* ProjectSummary::new
ProjectSummary_new(name) == [name |-> name, total_minutes |-> 0, notes |-> <<>>]


\* A variant that keeps the minutes of the last entry only.
add_time_replacing(summary, minutes) ==
    [summary EXCEPT !.total_minutes = minutes]

\* ProjectSummary::add_time
add_time(summary, minutes) ==
    [summary EXCEPT !.total_minutes = @ + minutes]

\* A variant that keeps the notes of the last entry only.
add_notes_replacing(summary, notes) == [summary EXCEPT !.notes = notes]

\* ProjectSummary::add_notes
add_notes(summary, notes) == [summary EXCEPT !.notes = @ \o notes]

(* ------------------- after the loop: the passes ------------------------ *)

\* The warning of the long-entry pass for one entry.
long_entry_warning(entry) ==
    <<"Time period ">> \o format_time(entry.start) \o <<"-">> \o format_time(entry.end)
        \o <<" appears to be longer than 6 hours. Input may not be in correct order.">>

\* The warning of the long-gap pass for one pair.
long_gap_warning(prev_end, start) ==
    <<"Gap from ">> \o format_time(prev_end) \o <<" to ">> \o format_time(start)
        \o <<" appears to be longer than 6 hours. Input may not be in correct order.">>


\* A variant with the threshold of eight hours.
RECURSIVE check_durations_eight_hours(_, _)
check_durations_eight_hours(warnings, es) ==
    IF Len(es) = 0 THEN warnings
    ELSE LET entry == Head(es)
             duration == duration_minutes(entry)
         IN check_durations_eight_hours(
                IF duration > 8 * 60
                THEN Append(warnings, long_entry_warning(entry))
                ELSE warnings,
                Tail(es))

\* The first pass: one warning for each entry longer than six hours.
RECURSIVE check_durations(_, _)
check_durations(warnings, es) ==
    IF Len(es) = 0 THEN warnings
    ELSE LET entry == Head(es)
             duration == duration_minutes(entry)
         IN check_durations(
                IF duration > 6 * 60
                THEN Append(warnings, long_entry_warning(entry))
                ELSE warnings,
                Tail(es))


\* A variant that warns from six hours on.
RECURSIVE check_gaps_at_least(_, _, _)
check_gaps_at_least(warnings, last_end, es) ==
    IF Len(es) = 0 THEN warnings
    ELSE LET entry == Head(es)
             gap == chronological_duration_minutes(last_end.val, entry.start)
         IN check_gaps_at_least(
                IF last_end.some /\ gap >= 6 * 60
                THEN Append(warnings, long_gap_warning(last_end.val, entry.start))
                ELSE warnings,
                Some(entry.end),
                Tail(es))

\* The second pass: one warning for each gap longer than six hours.
RECURSIVE check_gaps(_, _, _)
check_gaps(warnings, last_end, es) ==
    IF Len(es) = 0 THEN warnings
    ELSE LET entry == Head(es)
             gap == chronological_duration_minutes(last_end.val, entry.start)
         IN check_gaps(
                IF last_end.some /\ gap > 6 * 60
                THEN Append(warnings, long_gap_warning(last_end.val, entry.start))
                ELSE warnings,
                Some(entry.end),
                Tail(es))

\* A variant that counts the labelled entries only.
RECURSIVE sum_durations_labelled(_)
sum_durations_labelled(es) ==
    IF Len(es) = 0 THEN 0
    ELSE (IF Head(es).project = <<>> THEN 0 ELSE duration_minutes(Head(es)))
             + sum_durations_labelled(Tail(es))

\* The total working time: the durations of all entries.
RECURSIVE sum_durations(_)
sum_durations(es) ==
    IF Len(es) = 0 THEN 0
    ELSE duration_minutes(Head(es)) + sum_durations(Tail(es))

\* A variant that leaves out the gaps longer than six hours.
RECURSIVE sum_dead_time_capped(_, _, _)
sum_dead_time_capped(dead, last_end, es) ==
    IF Len(es) = 0 THEN dead
    ELSE LET entry == Head(es)
             gap == chronological_duration_minutes(last_end.val, entry.start)
         IN sum_dead_time_capped(
                IF last_end.some /\ gap > 0 /\ gap <= 6 * 60
                THEN dead + as_u32(gap)
                ELSE dead,
                Some(entry.end),
                Tail(es))

\* The dead time: every positive gap between consecutive entries.
RECURSIVE sum_dead_time(_, _, _)
sum_dead_time(dead, last_end, es) ==
    IF Len(es) = 0 THEN dead
    ELSE LET entry == Head(es)
             gap == chronological_duration_minutes(last_end.val, entry.start)
         IN sum_dead_time(
                IF last_end.some /\ gap > 0 THEN dead + as_u32(gap) ELSE dead,
                Some(entry.end),
                Tail(es))

\* The aggregation loop: project_map is a function from the project names
\* seen so far to their ProjectSummary.
RECURSIVE aggregate(_, _)
aggregate(project_map, es) ==
    IF Len(es) = 0 THEN project_map
    ELSE LET entry == Head(es)
         IN IF entry.project = <<>>
            THEN aggregate(project_map, Tail(es))
            ELSE LET found ==
                         IF entry.project \in DOMAIN project_map
                         THEN project_map[entry.project]
                         ELSE ProjectSummary_new(entry.project)
                     summary ==
                         add_notes(add_time(found, duration_minutes(entry)), entry.notes)
                 IN aggregate(
                        [k \in DOMAIN project_map \cup {entry.project} |->
                            IF k = entry.project THEN summary ELSE project_map[k]],
                        Tail(es))

\* HashMap::into_values leaves the order open: every enumeration of the values.
into_values(project_map) ==
    LET n == Cardinality(DOMAIN project_map)
    IN { [i \in 1..n |-> project_map[order[i]]] :
            order \in { f \in [1..n -> DOMAIN project_map] :
                          \A i, j \in 1..n : f[i] = f[j] => i = j } }

\* The byte of a character (the characters of the model are ASCII).
CharCode(c) ==
    CASE c = " " -> 32 [] c = "#" -> 35 [] c = "*" -> 42 [] c = "+" -> 43
      [] c = "\"" -> 34 [] c = "\\" -> 92 [] c = "," -> 44 [] c = "]" -> 93
      [] c = "-" -> 45 [] c \in Digits -> 48 + DigitVal(c) [] c = ":" -> 58
      [] c = "B" -> 66 [] c = "E" -> 69 [] c = "a" -> 97 [] c = "b" -> 98
      [] c = "m" -> 109 [] c = "n" -> 110 [] c = "x" -> 120

\* Ord for str: -1, 0 or 1 as a is less than, equal to or greater than b.
RECURSIVE str_cmp(_, _)
str_cmp(a, b) ==
    IF Len(a) = 0 /\ Len(b) = 0 THEN 0
    ELSE IF Len(a) = 0 THEN -1
    ELSE IF Len(b) = 0 THEN 1
    ELSE IF CharCode(a[1]) < CharCode(b[1]) THEN -1
    ELSE IF CharCode(a[1]) > CharCode(b[1]) THEN 1
    ELSE str_cmp(Tail(a), Tail(b))

\* One insertion of a stable sort by name.
RECURSIVE insert_by_name(_, _)
insert_by_name(sorted, p) ==
    IF Len(sorted) = 0 THEN <<p>>
    ELSE IF str_cmp(p.name, sorted[Len(sorted)].name) >= 0 THEN Append(sorted, p)
    ELSE Append(insert_by_name(SubSeq(sorted, 1, Len(sorted) - 1), p),
                sorted[Len(sorted)])

\* A variant that leaves the summaries in the order the map gave them.
sort_by_name_skipped(ps) == ps

\* projects.sort_by(|a, b| a.name.cmp(&b.name))
RECURSIVE sort_by_name(_)
sort_by_name(ps) ==
    IF Len(ps) = 0 THEN <<>>
    ELSE insert_by_name(sort_by_name(SubSeq(ps, 1, Len(ps) - 1)), ps[Len(ps)])

\* The entries once the entry still open after the loop is pushed.
push_last(es, current) == IF current.some THEN Append(es, current.val) ELSE es

\* A variant that takes the overall start and end only when some project was
\* aggregated.
finish_bounds_of_projects(d, es, values) ==
    [ total_minutes |-> sum_durations(es),
      dead_time_minutes |-> sum_dead_time(d.dead_time_minutes, None, es),
      projects |-> sort_by_name(values),
      warnings |-> check_gaps(check_durations(d.warnings, es), None, es),
      start_time |-> IF Len(values) # 0 THEN Some(es[1].start) ELSE d.start_time,
      end_time |-> IF Len(values) # 0 THEN Some(es[Len(es)].end) ELSE d.end_time ]



\* A variant that leaves the entries longer than six hours out of the total.
finish_short_entries_only(d, es, values) ==
    [ total_minutes |->
          sum_durations(SelectSeq(es, LAMBDA e : duration_minutes(e) <= 6 * 60)),
      dead_time_minutes |-> sum_dead_time(d.dead_time_minutes, None, es),
      projects |-> sort_by_name(values),
      warnings |-> check_gaps(check_durations(d.warnings, es), None, es),
      start_time |-> IF Len(es) # 0 THEN Some(es[1].start) ELSE d.start_time,
      end_time |-> IF Len(es) # 0 THEN Some(es[Len(es)].end) ELSE d.end_time ]

\* A variant that looks for long gaps before it looks for long entries.
finish_gaps_first(d, es, values) ==
    [ total_minutes |-> sum_durations(es),
      dead_time_minutes |-> sum_dead_time(d.dead_time_minutes, None, es),
      projects |-> sort_by_name(values),
      warnings |-> check_durations(check_gaps(d.warnings, None, es), es),
      start_time |-> IF Len(es) # 0 THEN Some(es[1].start) ELSE d.start_time,
      end_time |-> IF Len(es) # 0 THEN Some(es[Len(es)].end) ELSE d.end_time ]

\* Everything after the loop, on the final list of entries; values is the
\* order in which the map gave its summaries.
finish(d, es, values) ==
    [ total_minutes |-> sum_durations(es),
      dead_time_minutes |-> sum_dead_time(d.dead_time_minutes, None, es),
      projects |-> sort_by_name(values),
      warnings |-> check_gaps(check_durations(d.warnings, es), None, es),
      start_time |-> IF Len(es) # 0 THEN Some(es[1].start) ELSE d.start_time,
      end_time |-> IF Len(es) # 0 THEN Some(es[Len(es)].end) ELSE d.end_time ]

(* --------------------- parse_time_tracking_data ----------------------- *)

Init ==
    /\ input \in Inputs
    /\ prefix \in {None, Some(PrefixMarker)}
    /\ suffix \in {None, Some(SuffixMarker)}
    /\ idx = 0
    /\ parsing_started = FALSE
    /\ current_entry = None
    /\ entries = <<>>
    /\ data = TimeTrackingData_new
    /\ phase = "scan"
    /\ json = None
    /\ restored = None

\* The line the loop is looking at, trimmed.
CurLine == trim(input[idx + 1])

HasLine == phase = "scan" /\ idx < Len(input)

\* The locals of the function as one record.
Locals ==
    [ parsing_started |-> parsing_started,
      current_entry |-> current_entry,
      entries |-> entries,
      data |-> data ]

SetLocals(s) ==
    /\ parsing_started' = s.parsing_started
    /\ current_entry' = s.current_entry
    /\ entries' = s.entries
    /\ data' = s.data

(* The paths of the loop body, as conditions on the locals and the trimmed  *)
(* line, in the order the code tests them.                                  *)

\* A variant in which a time range starts the tracking even when a prefix
\* marker was given.
PastStart_ignoring_prefix(s, line, pre) ==
    \/ s.parsing_started
    \/ time_regex_is_match(line)

\* The line is past the start test: tracking had started, or starts at this
\* line (which is then parsed as data, no prefix marker having been given).
PastStart(s, line, pre) ==
    \/ s.parsing_started
    \/ is_time_tracking_line(line, pre) /\ ~pre.some

IsBlank(line) == line = <<>>


\* A variant that skips a line that does not start the tracking even after
\* the tracking has started.
IsPreamble_after_start(s, line, pre) ==
    /\ ~IsBlank(line)
    /\ ~is_time_tracking_line(line, pre)

IsPreamble(s, line, pre) ==
    /\ ~IsBlank(line)
    /\ ~s.parsing_started
    /\ ~is_time_tracking_line(line, pre)

IsPrefixLine(s, line, pre) ==
    /\ ~IsBlank(line)
    /\ ~s.parsing_started
    /\ is_time_tracking_line(line, pre)
    /\ pre.some

IsStop(s, line, pre, suf) ==
    /\ ~IsBlank(line)
    /\ PastStart(s, line, pre)
    /\ ~should_continue_parsing(line, suf)

\* The line reaches the classification into note and entry lines.
IsData(s, line, pre, suf) ==
    /\ ~IsBlank(line)
    /\ PastStart(s, line, pre)
    /\ should_continue_parsing(line, suf)

\* The else branch of `!line.starts_with(char::is_numeric) && !line.is_empty()`.
IsEntryLine(line) == starts_with_in(line, Numeric) \/ line = <<>>

IsNote(s, line, pre, suf) == IsData(s, line, pre, suf) /\ ~IsEntryLine(line)

IsMissingProject(s, line, pre, suf) ==
    /\ IsData(s, line, pre, suf)
    /\ IsEntryLine(line)
    /\ Len(splitn2(line, " ")) < 2

IsOpened(s, line, pre, suf) ==
    /\ IsData(s, line, pre, suf)
    /\ IsEntryLine(line)
    /\ Len(splitn2(line, " ")) >= 2
    /\ parse_time_range(splitn2(line, " ")[1]).ok

IsRejected(s, line, pre, suf) ==
    /\ IsData(s, line, pre, suf)
    /\ IsEntryLine(line)
    /\ Len(splitn2(line, " ")) >= 2
    /\ ~parse_time_range(splitn2(line, " ")[1]).ok

(* What each path does to the locals.                                       *)

\* The prefix marker line: tracking starts, the line is skipped.
on_prefix_line(s) == [s EXCEPT !.parsing_started = TRUE]

\* A note line: pushed onto the notes of the open entry, if there is one.

\* A variant that puts the note before the notes the entry has.
on_note_prepending(s, line) ==
    [s EXCEPT
        !.parsing_started = TRUE,
        !.current_entry =
            IF s.current_entry.some
            THEN Some([s.current_entry.val EXCEPT
                          !.notes = <<note_text(line)>> \o @])
            ELSE s.current_entry]

on_note(s, line) ==
    [s EXCEPT
        !.parsing_started = TRUE,
        !.current_entry =
            IF s.current_entry.some
            THEN Some([s.current_entry.val EXCEPT
                          !.notes = Append(@, note_text(line))])
            ELSE s.current_entry]

\* A variant that warns about the missing project and opens no entry.
on_missing_project_dropping(s, line) ==
    [s EXCEPT
        !.parsing_started = TRUE,
        !.entries = push_last(s.entries, s.current_entry),
        !.data.warnings = Append(@, <<"Line missing project name: ">> \o line),
        !.current_entry = None]


\* A variant that also reports a time range that does not parse.
on_missing_project_reporting(s, line) ==
    LET parts == splitn2(line, " ")
        range == parse_time_range(parts[1])
    IN [s EXCEPT
           !.parsing_started = TRUE,
           !.entries = push_last(s.entries, s.current_entry),
           !.data.warnings =
               IF range.ok
               THEN Append(@, <<"Line missing project name: ">> \o line)
               ELSE Append(Append(@, <<"Line missing project name: ">> \o line),
                           <<"Error parsing time range '">> \o parts[1]
                               \o <<"': ">> \o range.err),
           !.current_entry =
               IF range.ok
               THEN Some([start |-> range.val.start, end |-> range.val.end,
                          project |-> <<>>, notes |-> <<>>])
               ELSE None]

\* An entry line without a second part: a warning, and an entry with an
\* empty project when the time range parses.
on_missing_project(s, line) ==
    LET parts == splitn2(line, " ")
        range == parse_time_range(parts[1])
    IN [s EXCEPT
           !.parsing_started = TRUE,
           !.entries = push_last(s.entries, s.current_entry),
           !.data.warnings = Append(@, <<"Line missing project name: ">> \o line),
           !.current_entry =
               IF range.ok
               THEN Some([start |-> range.val.start, end |-> range.val.end,
                          project |-> <<>>, notes |-> <<>>])
               ELSE None]

\* An entry line with a project whose time range parses: a new open entry.
on_opened(s, line) ==
    LET parts == splitn2(line, " ")
        range == parse_time_range(parts[1])
    IN [s EXCEPT
           !.parsing_started = TRUE,
           !.entries = push_last(s.entries, s.current_entry),
           !.current_entry =
               Some([start |-> range.val.start, end |-> range.val.end,
                     project |-> trim(parts[2]), notes |-> <<>>])]


\* A variant that leaves the open entry open when the time range does not
\* parse.
on_rejected_keeping_open(s, line) ==
    LET parts == splitn2(line, " ")
        range == parse_time_range(parts[1])
    IN [s EXCEPT
           !.parsing_started = TRUE,
           !.data.warnings =
               Append(@, <<"Error parsing time range '">> \o parts[1]
                             \o <<"': ">> \o range.err)]

\* A variant that drops the line without a warning.
on_rejected_silently(s, line) ==
    [s EXCEPT
        !.parsing_started = TRUE,
        !.entries = push_last(s.entries, s.current_entry),
        !.current_entry = None]

\* An entry line with a project whose time range does not parse: a warning.
on_rejected(s, line) ==
    LET parts == splitn2(line, " ")
        range == parse_time_range(parts[1])
    IN [s EXCEPT
           !.parsing_started = TRUE,
           !.entries = push_last(s.entries, s.current_entry),
           !.current_entry = None,
           !.data.warnings =
               Append(@, <<"Error parsing time range '">> \o parts[1]
                             \o <<"': ">> \o range.err)]

\* The loop has ended (break, or input.lines() is exhausted): the open entry
\* is pushed, the passes run and the record is returned.  One result for each
\* order in which the map may give its summaries.
on_return(s) ==
    LET es == push_last(s.entries, s.current_entry)
    IN { [s EXCEPT !.entries = es,
                   !.current_entry = None,
                   !.data = finish(s.data, es, values)] :
            values \in into_values(aggregate(<<>>, es)) }

\* The locals at the head of the function.
InitialLocals ==
    [ parsing_started |-> FALSE,
      current_entry |-> None,
      entries |-> <<>>,
      data |-> TimeTrackingData_new ]

\* The loop over the lines, from locals s: the locals at every possible return.
RECURSIVE scan(_, _, _, _)
scan(s, lines, pre, suf) ==
    IF Len(lines) = 0 THEN on_return(s)
    ELSE LET line == trim(Head(lines))
             rest == Tail(lines)
         IN IF IsBlank(line) THEN scan(s, rest, pre, suf)
            ELSE IF IsPreamble(s, line, pre) THEN scan(s, rest, pre, suf)
            ELSE IF IsPrefixLine(s, line, pre)
            THEN scan(on_prefix_line(s), rest, pre, suf)
            ELSE IF IsStop(s, line, pre, suf)
            THEN on_return([s EXCEPT !.parsing_started = TRUE])
            ELSE IF IsNote(s, line, pre, suf)
            THEN scan(on_note(s, line), rest, pre, suf)
            ELSE IF IsMissingProject(s, line, pre, suf)
            THEN scan(on_missing_project(s, line), rest, pre, suf)
            ELSE IF IsOpened(s, line, pre, suf)
            THEN scan(on_opened(s, line), rest, pre, suf)
            ELSE scan(on_rejected(s, line), rest, pre, suf)

\* parse_time_tracking_data as a function of its arguments: the records it
\* may return.
parse_time_tracking_data(inp, pre, suf) ==
    { s.data : s \in scan(InitialLocals, inp, pre, suf) }

(* The actions: one for each path of the loop body, and the end of input.   *)

\* A blank line: continue.
SkipBlank ==
    /\ HasLine
    /\ IsBlank(CurLine)
    /\ idx' = idx + 1
    /\ UNCHANGED <<input, prefix, suffix, parsing_started, current_entry,
                   entries, data, phase, json, restored>>

\* Before the start, a line that does not start the tracking: continue.
SkipPreamble ==
    /\ HasLine
    /\ IsPreamble(Locals, CurLine, prefix)
    /\ idx' = idx + 1
    /\ UNCHANGED <<input, prefix, suffix, parsing_started, current_entry,
                   entries, data, phase, json, restored>>

\* Before the start, the line that starts with the prefix marker.
SkipPrefixLine ==
    /\ HasLine
    /\ IsPrefixLine(Locals, CurLine, prefix)
    /\ SetLocals(on_prefix_line(Locals))
    /\ idx' = idx + 1
    /\ UNCHANGED <<input, prefix, suffix, phase, json, restored>>

\* A line that fails should_continue_parsing: break, and return.
StopLine ==
    /\ HasLine
    /\ IsStop(Locals, CurLine, prefix, suffix)
    /\ \E s \in on_return([Locals EXCEPT !.parsing_started = TRUE]) : SetLocals(s)
    /\ phase' = "done"
    /\ UNCHANGED <<input, prefix, suffix, idx, json, restored>>

\* A line that does not start with a digit.
NoteLine ==
    /\ HasLine
    /\ IsNote(Locals, CurLine, prefix, suffix)
    /\ SetLocals(on_note(Locals, CurLine))
    /\ idx' = idx + 1
    /\ UNCHANGED <<input, prefix, suffix, phase, json, restored>>

\* An entry line without a project.
EntryMissingProject ==
    /\ HasLine
    /\ IsMissingProject(Locals, CurLine, prefix, suffix)
    /\ SetLocals(on_missing_project(Locals, CurLine))
    /\ idx' = idx + 1
    /\ UNCHANGED <<input, prefix, suffix, phase, json, restored>>

\* An entry line with a project and a time range that parses.
EntryOpened ==
    /\ HasLine
    /\ IsOpened(Locals, CurLine, prefix, suffix)
    /\ SetLocals(on_opened(Locals, CurLine))
    /\ idx' = idx + 1
    /\ UNCHANGED <<input, prefix, suffix, phase, json, restored>>

\* A variant in which a time range that does not parse aborts the scan.
EntryRejected_aborting ==
    /\ HasLine
    /\ IsRejected(Locals, CurLine, prefix, suffix)
    /\ phase' = "aborted"
    /\ UNCHANGED <<input, prefix, suffix, idx, parsing_started, current_entry,
                   entries, data, json, restored>>

\* An entry line with a project and a time range that does not parse.
EntryRejected ==
    /\ HasLine
    /\ IsRejected(Locals, CurLine, prefix, suffix)
    /\ SetLocals(on_rejected(Locals, CurLine))
    /\ idx' = idx + 1
    /\ UNCHANGED <<input, prefix, suffix, phase, json, restored>>

\* input.lines() has no more lines: return.
EndOfInput ==
    /\ phase = "scan"
    /\ idx = Len(input)
    /\ \E s \in on_return(Locals) : SetLocals(s)
    /\ phase' = "done"
    /\ UNCHANGED <<input, prefix, suffix, idx, json, restored>>

Next ==
    \/ SkipBlank
    \/ SkipPreamble
    \/ SkipPrefixLine
    \/ StopLine
    \/ NoteLine
    \/ EntryMissingProject
    \/ EntryOpened
    \/ EntryRejected
    \/ EndOfInput

Spec == Init /\ [][Next]_vars

(* ============================ the JSON text ============================ *)

(* serde_json::to_string and serde_json::from_str on the derived Serialize and
   Deserialize of TimeTrackingData, ProjectSummary, Time, Hour and Minute.  A
   JSON text is a sequence of characters like any other text of the model; a
   field name and the word null are one element each.                       *)

\* A variant that writes the characters of a string as they are.
json_escape_raw(s) == s

\* The text of a string between its quotes: '"' and '\' are escaped with a
\* '\', a line feed and a tab are written \n and \t.
RECURSIVE json_escape(_)
json_escape(s) ==
    IF Len(s) = 0 THEN <<>>
    ELSE (CASE s[1] = "\"" -> <<"\\", "\"">>
            [] s[1] = "\\" -> <<"\\", "\\">>
            [] s[1] = "\n" -> <<"\\", "n">>
            [] s[1] = "\t" -> <<"\\", "t">>
            [] OTHER -> <<s[1]>>) \o json_escape(Tail(s))

\* A String.
serialize_str(s) == <<"\"">> \o json_escape(s) \o <<"\"">>

\* A u8 or a u32.
serialize_number(n) == to_decimal(n)

\* The name of a field and the colon after it.
serialize_key(name) == <<"\"", name, "\"", ":">>

\* The elements of a Vec, already serialized, between brackets.
RECURSIVE join_with_commas(_)
join_with_commas(items) ==
    IF Len(items) = 0 THEN <<>>
    ELSE IF Len(items) = 1 THEN items[1]
    ELSE items[1] \o <<",">> \o join_with_commas(Tail(items))

serialize_seq(items) == <<"[">> \o join_with_commas(items) \o <<"]">>

\* Vec<String>
serialize_strings(v) == serialize_seq([i \in 1..Len(v) |-> serialize_str(v[i])])

\* Time: hour is transparent (the number), minute is its inner number.
serialize_Time(t) ==
    <<"{">> \o serialize_key("hour") \o serialize_number(t.hour)
        \o <<",">> \o serialize_key("minute") \o serialize_number(t.minute)
        \o <<"}">>

\* Option<Time>
serialize_Option_Time(o) == IF o.some THEN serialize_Time(o.val) ELSE <<"null">>

\* ProjectSummary
serialize_ProjectSummary(p) ==
    <<"{">> \o serialize_key("name") \o serialize_str(p.name)
        \o <<",">> \o serialize_key("total_minutes")
        \o serialize_number(p.total_minutes)
        \o <<",">> \o serialize_key("notes") \o serialize_strings(p.notes)
        \o <<"}">>

\* TimeTrackingData::to_json: the fields in the order of their declaration.
\* Nothing in the record makes the serializer fail.
to_json(d) ==
    Ok(<<"{">> \o serialize_key("total_minutes")
           \o serialize_number(d.total_minutes)
           \o <<",">> \o serialize_key("dead_time_minutes")
           \o serialize_number(d.dead_time_minutes)
           \o <<",">> \o serialize_key("projects")
           \o serialize_seq([i \in 1..Len(d.projects) |->
                                serialize_ProjectSummary(d.projects[i])])
           \o <<",">> \o serialize_key("warnings")
           \o serialize_strings(d.warnings)
           \o <<",">> \o serialize_key("start_time")
           \o serialize_Option_Time(d.start_time)
           \o <<",">> \o serialize_key("end_time")
           \o serialize_Option_Time(d.end_time)
           \o <<"}">>)

(* The deserializer reads the text from the left.  A reader takes the state
   of the reading (ok, the value read last, the text still to read) and
   gives the state after it; once ok is FALSE it stays FALSE.               *)

Reading(text) == [ok |-> TRUE, val |-> <<>>, rest |-> text]

Failed == [ok |-> FALSE, val |-> <<>>, rest |-> <<>>]

\* The text must go on with lit.
expect(r, lit) ==
    IF r.ok /\ starts_with(r.rest, lit)
    THEN [r EXCEPT !.rest = SubSeq(r.rest, Len(lit) + 1, Len(r.rest))]
    ELSE Failed

\* The characters of a string up to its closing quote, escapes undone.
RECURSIVE string_body(_, _)
string_body(text, acc) ==
    IF Len(text) = 0 THEN Failed
    ELSE IF text[1] = "\"" THEN [ok |-> TRUE, val |-> acc, rest |-> Tail(text)]
    ELSE IF text[1] = "\\"
    THEN IF Len(text) < 2 THEN Failed
         ELSE IF text[2] \in {"\"", "\\"}
         THEN string_body(SubSeq(text, 3, Len(text)), Append(acc, text[2]))
         ELSE IF text[2] = "n"
         THEN string_body(SubSeq(text, 3, Len(text)), Append(acc, "\n"))
         ELSE IF text[2] = "t"
         THEN string_body(SubSeq(text, 3, Len(text)), Append(acc, "\t"))
         ELSE Failed
    ELSE string_body(Tail(text), Append(acc, text[1]))

\* A String.
deserialize_str(r) ==
    LET open == expect(r, <<"\"">>)
    IN IF open.ok THEN string_body(open.rest, <<>>) ELSE Failed

\* The digits the text starts with.
RECURSIVE leading_digits(_)
leading_digits(text) ==
    IF Len(text) > 0 /\ text[1] \in Digits
    THEN <<text[1]>> \o leading_digits(Tail(text))
    ELSE <<>>

\* An unsigned number: digits, no leading zero before others.  The totals of
\* the model have fewer than ten digits, so every number read fits a u32.
deserialize_u32(r) ==
    LET ds == IF r.ok THEN leading_digits(r.rest) ELSE <<>>
    IN IF ~r.ok \/ Len(ds) = 0 \/ Len(ds) > 9 THEN Failed
       ELSE IF Len(ds) > 1 /\ ds[1] = "0" THEN Failed
       ELSE [ok |-> TRUE, val |-> digits_value(ds),
             rest |-> SubSeq(r.rest, Len(ds) + 1, Len(r.rest))]

\* The largest u8.
U8Max == 255

\* A u8: a number of at most U8Max.
deserialize_u8(r) ==
    LET n == deserialize_u32(r)
    IN IF n.ok /\ n.val <= U8Max THEN n ELSE Failed

\* Hour is #[serde(transparent)] over u8: any u8 is taken.
deserialize_Hour(r) == deserialize_u8(r)

\* The Deserialize nutype derives for Minute: a u8 that passes the validation.
deserialize_Minute(r) ==
    LET n == deserialize_u8(r)
    IN IF n.ok /\ Minute_try_new(n.val).ok THEN n ELSE Failed

\* Time
deserialize_Time(r) ==
    LET h == deserialize_Hour(expect(expect(r, <<"{">>), serialize_key("hour")))
        m == deserialize_Minute(expect(expect(h, <<",">>), serialize_key("minute")))
        close == expect(m, <<"}">>)
    IN IF close.ok
       THEN [close EXCEPT !.val = [hour |-> h.val, minute |-> m.val]]
       ELSE Failed

\* Option<Time>: null is None.
deserialize_Option_Time(r) ==
    IF r.ok /\ starts_with(r.rest, <<"null">>)
    THEN [expect(r, <<"null">>) EXCEPT !.val = None]
    ELSE LET t == deserialize_Time(r)
         IN IF t.ok THEN [t EXCEPT !.val = Some(t.val)] ELSE Failed

\* The elements of a Vec<String> after the first, up to the closing bracket.
RECURSIVE more_strings(_, _)
more_strings(r, acc) ==
    IF ~r.ok THEN Failed
    ELSE IF starts_with(r.rest, <<"]">>)
    THEN [expect(r, <<"]">>) EXCEPT !.val = acc]
    ELSE LET s == deserialize_str(expect(r, <<",">>))
         IN IF s.ok THEN more_strings(s, Append(acc, s.val)) ELSE Failed

\* Vec<String>
deserialize_strings(r) ==
    LET open == expect(r, <<"[">>)
    IN IF ~open.ok THEN Failed
       ELSE IF starts_with(open.rest, <<"]">>)
       THEN [expect(open, <<"]">>) EXCEPT !.val = <<>>]
       ELSE LET s == deserialize_str(open)
            IN IF s.ok THEN more_strings(s, <<s.val>>) ELSE Failed

\* ProjectSummary
deserialize_ProjectSummary(r) ==
    LET name == deserialize_str(expect(expect(r, <<"{">>), serialize_key("name")))
        total == deserialize_u32(
                     expect(expect(name, <<",">>), serialize_key("total_minutes")))
        notes == deserialize_strings(
                     expect(expect(total, <<",">>), serialize_key("notes")))
        close == expect(notes, <<"}">>)
    IN IF close.ok
       THEN [close EXCEPT !.val = [name |-> name.val,
                                   total_minutes |-> total.val,
                                   notes |-> notes.val]]
       ELSE Failed

\* The elements of a Vec<ProjectSummary> after the first.
RECURSIVE more_projects(_, _)
more_projects(r, acc) ==
    IF ~r.ok THEN Failed
    ELSE IF starts_with(r.rest, <<"]">>)
    THEN [expect(r, <<"]">>) EXCEPT !.val = acc]
    ELSE LET p == deserialize_ProjectSummary(expect(r, <<",">>))
         IN IF p.ok THEN more_projects(p, Append(acc, p.val)) ELSE Failed

\* Vec<ProjectSummary>
deserialize_projects(r) ==
    LET open == expect(r, <<"[">>)
    IN IF ~open.ok THEN Failed
       ELSE IF starts_with(open.rest, <<"]">>)
       THEN [expect(open, <<"]">>) EXCEPT !.val = <<>>]
       ELSE LET p == deserialize_ProjectSummary(open)
            IN IF p.ok THEN more_projects(p, <<p.val>>) ELSE Failed

\* TimeTrackingData::from_json, on a text whose fields come in the order of
\* their declaration and without white space, as to_json writes them.
from_json(text) ==
    LET total == deserialize_u32(
                     expect(expect(Reading(text), <<"{">>),
                            serialize_key("total_minutes")))
        dead == deserialize_u32(
                    expect(expect(total, <<",">>),
                           serialize_key("dead_time_minutes")))
        projects == deserialize_projects(
                        expect(expect(dead, <<",">>), serialize_key("projects")))
        warnings == deserialize_strings(
                        expect(expect(projects, <<",">>), serialize_key("warnings")))
        start == deserialize_Option_Time(
                     expect(expect(warnings, <<",">>), serialize_key("start_time")))
        end == deserialize_Option_Time(
                   expect(expect(start, <<",">>), serialize_key("end_time")))
        close == expect(end, <<"}">>)
    IN IF close.ok /\ close.rest = <<>>
       THEN Ok([ total_minutes |-> total.val,
                 dead_time_minutes |-> dead.val,
                 projects |-> projects.val,
                 warnings |-> warnings.val,
                 start_time |-> start.val,
                 end_time |-> end.val ])
       ELSE Err(<<"serde_json::Error">>)

\* The lines of the inputs whose records are serialized: names, notes and
\* warnings with a '"', a '\', a ',' and a bracket in them.
JsonLinePool ==
    { <<"7", "-", "8", " ", "a">>,
      <<"9", ":", "0", "5", "-", "1", "0", " ", "\"", "b">>,
      <<"1", "2", ":", "3", "0", "-", "7", " ", "b">>,
      <<"-", " ", "\\", "n">>,
      <<"*", "\"", "m", "\"", ",", "]">>,
      <<"7", "-", "8", "\"", " ", "x">>,
      <<"1", "1", "-", "1">> }

JsonInputs == UNION { [1..n -> JsonLinePool] : n \in 0..MaxLines }

\* parse_time_tracking_data has returned the record of an input.
InitJson ==
    /\ input \in JsonInputs
    /\ prefix = None
    /\ suffix = None
    /\ idx = Len(input)
    /\ parsing_started = (Len(input) > 0)
    /\ current_entry = None
    /\ \E s \in scan(InitialLocals, input, None, None) :
          /\ entries = s.entries
          /\ data = s.data
    /\ phase = "done"
    /\ json = None
    /\ restored = None

\* data.to_json()
ToJson ==
    /\ phase = "done"
    /\ ~json.some
    /\ json' = Some(to_json(data))
    /\ UNCHANGED <<input, prefix, suffix, idx, parsing_started, current_entry,
                   entries, data, phase, restored>>

\* TimeTrackingData::from_json(&json)
FromJson ==
    /\ json.some
    /\ json.val.ok
    /\ ~restored.some
    /\ restored' = Some(from_json(json.val.val))
    /\ UNCHANGED <<input, prefix, suffix, idx, parsing_started, current_entry,
                   entries, data, phase, json>>

NextJson ==
    \/ ToJson
    \/ FromJson

SpecJson == InitJson /\ [][NextJson]_vars


(* ===================== the text after the block ======================== *)

\* The lines of inputs without markers that end in text of any kind: an
\* entry, notes with '-' and '*', lines that begin with an uppercase and a
\* lowercase letter, with a letter that has no case, with a numeric character
\* that is no digit, and with '#'.
FooterLinePool ==
    { <<"7", "-", "8", " ", "a">>,
      <<"-", " ", "n">>,
      <<"*", "m">>,
      <<"B", " ", "n">>,
      <<"n", " ", "x">>,
      <<"א", " ", "n">>,
      <<"½", " ", "x">>,
      <<"#", "f">> }

FooterInputs == UNION { [1..n -> FooterLinePool] : n \in 0..MaxLines }

\* parse_time_tracking_data(input, None, None) at its head.
InitFooter ==
    /\ input \in FooterInputs
    /\ prefix = None
    /\ suffix = None
    /\ idx = 0
    /\ parsing_started = FALSE
    /\ current_entry = None
    /\ entries = <<>>
    /\ data = TimeTrackingData_new
    /\ phase = "scan"
    /\ json = None
    /\ restored = None

\* The paths of the loop body these inputs take.
NextFooter ==
    \/ SkipPreamble
    \/ StopLine
    \/ NoteLine
    \/ EntryOpened
    \/ EntryRejected
    \/ EndOfInput

SpecFooter == InitFooter /\ [][NextFooter]_vars


(* ========================= entries by the clock ======================== *)

\* Entry lines whose times are at the ends of the ranges and around six
\* hours: spans of 0, 1, 59, 360, 361 and 705 minutes, starts and ends at
\* 12:00, 12:45, 12:59, 1:00, 6:00, 6:01, 7:00, 11:59 and hour 0, one line
\* without a label.
ClockLinePool ==
    { <<"1", "2", "-", "6", " ", "a">>,
      <<"1", "2", "-", "6", ":", "0", "1", " ", "a">>,
      <<"1", "1", ":", "5", "9", "-", "1", "2", " ", "b">>,
      <<"6", "-", "7", " ", "a">>,
      <<"6", ":", "0", "1", "-", "7", " ", "b">>,
      <<"1", "2", ":", "4", "5", "-", "1", " ", "a">>,
      <<"7", "-", "7", " ", "a">>,
      <<"1", "-", "1", "2", ":", "4", "5">>,
      <<"0", "-", "1", "2", ":", "5", "9", " ", "b">> }

ClockInputs == UNION { [1..n -> ClockLinePool] : n \in 0..MaxLines }

\* parse_time_tracking_data(input, None, None) at its head.
InitClock ==
    /\ input \in ClockInputs
    /\ prefix = None
    /\ suffix = None
    /\ idx = 0
    /\ parsing_started = FALSE
    /\ current_entry = None
    /\ entries = <<>>
    /\ data = TimeTrackingData_new
    /\ phase = "scan"
    /\ json = None
    /\ restored = None

\* The paths of the loop body these inputs take.
NextClock ==
    \/ EntryMissingProject
    \/ EntryOpened
    \/ EndOfInput

SpecClock == InitClock /\ [][NextClock]_vars



(* ========================== decoding a JSON text ======================= *)

\* The largest hour written in a text given to from_json.
MaxHourRead == 14

\* Texts a caller may give to from_json: records as to_json writes them, with
\* any number for the hour and the minute of start_time and end_time.
JsonTexts ==
    { to_json([TimeTrackingData_new EXCEPT
                   !.start_time = Some([hour |-> h, minute |-> m]),
                   !.end_time = e]).val :
        h \in 0..MaxHourRead,
        m \in {0, 59, 60},
        e \in {None, Some([hour |-> 12, minute |-> 59]),
               Some([hour |-> MaxHourRead, minute |-> 0])} }

\* A JSON text is at hand; nothing was parsed.
InitDecode ==
    /\ input = <<>>
    /\ prefix = None
    /\ suffix = None
    /\ idx = 0
    /\ parsing_started = FALSE
    /\ current_entry = None
    /\ entries = <<>>
    /\ data = TimeTrackingData_new
    /\ phase = "done"
    /\ json \in {Some(Ok(text)) : text \in JsonTexts}
    /\ restored = None

NextDecode == FromJson

SpecDecode == InitDecode /\ [][NextDecode]_vars

(* ============================ notes and warnings ======================= *)

\* Lines for the notes and the parse warnings: two labelled entries (the
\* second longer than six hours), an entry without a label, a time range that
\* does not parse with and without a label, notes with both markers in both
\* orders and with one marker, the prefix marker and a stop line.
NoteLinePool ==
    { <<"7", "-", "8", " ", "a">>,
      <<"1", "2", "-", "7", " ", "b">>,
      <<"1", "1", "-", "1">>,
      <<"2", "5", "-", "2", "6", " ", "x">>,
      <<"2", "5", "-", "2", "6">>,
      <<"-", "*", "m">>,
      <<"*", "-", "m">>,
      <<"-", " ", "n">>,
      <<"B">>,
      <<"#", "f">> }

NoteInputs == UNION { [1..n -> NoteLinePool] : n \in 0..MaxLines }

\* parse_time_tracking_data(input, prefix, None) at its head.
InitNotes ==
    /\ input \in NoteInputs
    /\ prefix \in {None, Some(PrefixMarker)}
    /\ suffix = None
    /\ idx = 0
    /\ parsing_started = FALSE
    /\ current_entry = None
    /\ entries = <<>>
    /\ data = TimeTrackingData_new
    /\ phase = "scan"
    /\ json = None
    /\ restored = None

\* The paths of the loop body these inputs take.
NextNotes ==
    \/ SkipPreamble
    \/ SkipPrefixLine
    \/ StopLine
    \/ NoteLine
    \/ EntryMissingProject
    \/ EntryOpened
    \/ EntryRejected
    \/ EndOfInput

SpecNotes == InitNotes /\ [][NextNotes]_vars

(* ======================= properties of the parser ====================== *)

Done == phase = "done"

\* The sum of a sequence of numbers.
RECURSIVE SeqSum(_)
SeqSum(q) == IF Len(q) = 0 THEN 0 ELSE Head(q) + SeqSum(Tail(q))

\* The duration of the i-th accumulated entry, by Time::duration_minutes.
EntryDuration(i) == Time_duration_minutes(entries[i].start, entries[i].end)

HasUnlabelled == \E i \in 1..Len(entries) : entries[i].project = <<>>

HasLabelled == \E i \in 1..Len(entries) : entries[i].project # <<>>

\* C1: the total_minutes returned is the sum of duration_minutes(start, end)
\* over every accumulated entry, the entries with an empty project included.
C1_TotalIsSumOfAllEntries ==
    Done => data.total_minutes = SeqSum([i \in 1..Len(entries) |-> EntryDuration(i)])

\* A result with a labelled and an unlabelled entry, both counted.
C1_Witness ==
    /\ Done
    /\ HasUnlabelled
    /\ HasLabelled
    /\ data.total_minutes = 180

\* The gap of C2, in to_minutes space.
ClaimedGap(prev, next) ==
    LET p == to_minutes(prev)
        n == to_minutes(next)
    IN IF n > p THEN n - p
       ELSE IF n = p THEN 0
       ELSE 720 - p + n

\* The gap between the i-th accumulated entry and the next one.
GapAfter(i) == ClaimedGap(entries[i].end, entries[i + 1].start)

\* C2: dead_time_minutes is the sum over every pair of consecutive entries,
\* labelled or not, of the gap from the first one's end to the second one's
\* start, counting the positive gaps only and with no upper threshold.
C2_DeadTimeIsSumOfPositiveGaps ==
    Done => data.dead_time_minutes =
                SeqSum([i \in 1..(Len(entries) - 1) |->
                           IF GapAfter(i) > 0 THEN GapAfter(i) ELSE 0])

\* Three entries, one unlabelled, with a gap that wraps past the period and
\* is longer than six hours.
C2_Witness ==
    /\ Done
    /\ Len(entries) = 3
    /\ HasUnlabelled
    /\ \E i \in 1..2 :
          /\ to_minutes(entries[i + 1].start) < to_minutes(entries[i].end)
          /\ GapAfter(i) > 360
    /\ data.dead_time_minutes > 720

\* The labels of the accumulated entries, the empty one excluded.
Labels == {entries[i].project : i \in 1..Len(entries)} \ {<<>>}

\* The summed durations of the entries labelled name.
LabelTotal(name) ==
    SeqSum([i \in 1..Len(entries) |->
               IF entries[i].project = name THEN EntryDuration(i) ELSE 0])

\* The notes of the entries labelled name, concatenated in input order.
RECURSIVE LabelNotes(_, _)
LabelNotes(es, name) ==
    IF Len(es) = 0 THEN <<>>
    ELSE (IF Head(es).project = name THEN Head(es).notes ELSE <<>>)
             \o LabelNotes(Tail(es), name)

\* C3: projects holds exactly one ProjectSummary for each distinct non-empty
\* label among the entries and none for the empty label; its total_minutes is
\* the sum of the durations of the entries with that label and its notes are
\* their notes concatenated in input order.
C3_ProjectsAggregateByLabel ==
    Done =>
        /\ Len(data.projects) = Cardinality(Labels)
        /\ \A name \in Labels : \E k \in 1..Len(data.projects) :
              data.projects[k].name = name
        /\ \A k \in 1..Len(data.projects) :
              /\ data.projects[k].name \in Labels
              /\ data.projects[k].total_minutes = LabelTotal(data.projects[k].name)
              /\ data.projects[k].notes = LabelNotes(entries, data.projects[k].name)

\* Two entries of one project, the first with a note, in one summary.
C3_Witness ==
    /\ Done
    /\ Len(entries) = 2
    /\ Len(data.projects) = 1
    /\ data.projects[1].total_minutes = 120
    /\ Len(data.projects[1].notes) = 1


\* The names are strictly ascending.
StrictlyAscending(ps) ==
    \A k \in 1..(Len(ps) - 1) : str_cmp(ps[k].name, ps[k + 1].name) < 0

\* The (name, total_minutes) pairs of a record, in order.
NameTotals(d) ==
    [k \in 1..Len(d.projects) |-> <<d.projects[k].name, d.projects[k].total_minutes>>]

\* A labelled entry line whose time range parses.
IsLabelledEntryLine(raw) ==
    LET parts == splitn2(trim(raw), " ")
    IN /\ starts_with_in(trim(raw), Digits)
       /\ Len(parts) = 2
       /\ parse_time_range(parts[1]).ok

\* A note line: it begins with '-' or '*'.
IsNoteLineOfBlock(raw) ==
    starts_with(trim(raw), <<"-">>) \/ starts_with(trim(raw), <<"*">>)

\* The input is a sequence of blocks: a labelled entry line, then its notes.
MadeOfBlocks(inp) ==
    /\ Len(inp) > 0
    /\ IsLabelledEntryLine(inp[1])
    /\ \A i \in 1..Len(inp) : IsLabelledEntryLine(inp[i]) \/ IsNoteLineOfBlock(inp[i])

\* The block that starts at line i: the lines up to the next entry line.
RECURSIVE BlockEnd(_, _)
BlockEnd(inp, i) ==
    IF i = Len(inp) \/ IsLabelledEntryLine(inp[i + 1]) THEN i
    ELSE BlockEnd(inp, i + 1)

RECURSIVE ConcatBlocks(_, _)
ConcatBlocks(inp, order) ==
    IF Len(order) = 0 THEN <<>>
    ELSE SubSeq(inp, Head(order), BlockEnd(inp, Head(order)))
             \o ConcatBlocks(inp, Tail(order))

\* Every input made of the same blocks in some order.
Reorderings(inp) ==
    LET starts == {i \in 1..Len(inp) : IsLabelledEntryLine(inp[i])}
        n == Cardinality(starts)
    IN { ConcatBlocks(inp, order) :
            order \in { f \in [1..n -> starts] :
                          \A i, j \in 1..n : f[i] = f[j] => i = j } }

\* C4: the projects of every result are strictly ascending by name, so for an
\* input made of well-formed labelled entry blocks every reordering of the
\* blocks gives the same sequence of (name, total_minutes) pairs.
C4_ProjectsSortedWhateverTheOrder ==
    Done =>
        /\ StrictlyAscending(data.projects)
        /\ MadeOfBlocks(input) =>
              \A other \in Reorderings(input) :
                  \A d \in parse_time_tracking_data(other, prefix, suffix) :
                      NameTotals(d) = NameTotals(data)

\* Blocks given in descending order of their names, with a note between them.
C4_Witness ==
    /\ Done
    /\ MadeOfBlocks(input)
    /\ Len(input) = 3
    /\ Len(data.projects) = 2
    /\ str_cmp(entries[1].project, entries[2].project) > 0
    /\ Len(entries[1].notes) = 1
    /\ Cardinality(Reorderings(input)) = 2

\* C5: start_time and end_time are both present if an entry was accumulated
\* and both absent otherwise; when present they are the start of the first
\* entry and the end of the last entry in input order.
C5_StartAndEndOfInputOrder ==
    Done =>
        /\ data.start_time.some <=> Len(entries) > 0
        /\ data.end_time.some <=> Len(entries) > 0
        /\ Len(entries) > 0 =>
              /\ data.start_time.val = entries[1].start
              /\ data.end_time.val = entries[Len(entries)].end

\* An unlabelled first entry that starts later on the clock than the last
\* entry ends.
C5_Witness ==
    /\ Done
    /\ Len(entries) >= 2
    /\ entries[1].project = <<>>
    /\ data.start_time.some
    /\ to_minutes(data.start_time.val) > to_minutes(data.end_time.val)

\* No line of the input triggers the start detection.
NoStartLine ==
    \A i \in 1..Len(input) :
        trim(input[i]) = <<>> \/ ~is_time_tracking_line(trim(input[i]), prefix)

\* C6: when no line triggers the start detection the result is the empty
\* record: zero totals, no projects, no warnings, no start and end time.
C6_EmptyRecordWithoutStart ==
    (Done /\ NoStartLine) =>
        /\ data.total_minutes = 0
        /\ data.dead_time_minutes = 0
        /\ data.projects = <<>>
        /\ data.warnings = <<>>
        /\ ~data.start_time.some
        /\ ~data.end_time.some

\* A prefix marker was given and no line starts with it, though the input
\* holds entry lines.
C6_Witness ==
    /\ Done
    /\ NoStartLine
    /\ prefix.some
    /\ Len(input) = 3
    /\ \E i \in 1..3 : time_regex_is_match(trim(input[i]))

\* The shape of a returned record.
IsResultRecord(d) ==
    /\ d.total_minutes \in Nat
    /\ d.dead_time_minutes \in Nat
    /\ \A k \in 1..Len(d.projects) :
          /\ d.projects[k].total_minutes \in Nat
          /\ Len(d.projects[k].name) > 0
          /\ Len(d.projects[k].notes) >= 0
    /\ Len(d.warnings) >= 0
    /\ d.start_time.some =>
          /\ d.start_time.val.hour \in 0..12
          /\ d.start_time.val.minute \in 0..59
    /\ d.end_time.some =>
          /\ d.end_time.val.hour \in 0..12
          /\ d.end_time.val.minute \in 0..59

\* A step of the loop takes exactly one line, or returns.
OneLinePerStep ==
    \/ phase' = "scan" /\ idx' = idx + 1 /\ idx' <= Len(input)
    \/ phase' = "done" /\ idx' = idx

\* The loop has a step to take: the input is exhausted, or the line at hand
\* is on one of the paths of the loop body.
HasNextStep ==
    /\ phase = "scan"
    /\ \/ idx = Len(input)
       \/ /\ idx < Len(input)
          /\ \/ IsBlank(CurLine)
             \/ IsPreamble(Locals, CurLine, prefix)
             \/ IsPrefixLine(Locals, CurLine, prefix)
             \/ IsStop(Locals, CurLine, prefix, suffix)
             \/ IsNote(Locals, CurLine, prefix, suffix)
             \/ IsMissingProject(Locals, CurLine, prefix, suffix)
             \/ IsOpened(Locals, CurLine, prefix, suffix)
             \/ IsRejected(Locals, CurLine, prefix, suffix)

\* C7: the scan has no aborting path: whatever the lines, each step takes one
\* more line or returns, no state short of Done is without a next step (so
\* the scan reaches Done within one step for each line and one more), and
\* what is returned is a result record.
C7_ScanAlwaysCompletes ==
    /\ [][phase = "scan" /\ OneLinePerStep]_vars
    /\ [](phase \in {"scan", "done"})
    /\ [](Done \/ HasNextStep)
    /\ [](Done => IsResultRecord(data))

\* A scan that returned after three lines, one of them with a time range that
\* does not parse, and so with a warning.
C7_Witness ==
    /\ Done
    /\ idx = 3
    /\ \E i \in 1..3 :
          /\ starts_with_in(trim(input[i]), Digits)
          /\ Len(splitn2(trim(input[i]), " ")) = 2
          /\ ~parse_time_range(splitn2(trim(input[i]), " ")[1]).ok
    /\ Len(data.warnings) > 0

(* Time-range tokens, as the text describes them: start-end with exactly one *)
(* '-', each side H or H:MM, both numbers, the hour at most 12 and the       *)
(* minute at most 59.                                                        *)

CountChar(t, c) == Cardinality({i \in 1..Len(t) : t[i] = c})

IsNumber(t) == Len(t) > 0 /\ \A i \in 1..Len(t) : t[i] \in Digits

HourText(t) == IF find(t, ":") = 0 THEN t ELSE SubSeq(t, 1, find(t, ":") - 1)

MinuteText(t) ==
    IF find(t, ":") = 0 THEN <<"0", "0">> ELSE SubSeq(t, find(t, ":") + 1, Len(t))

ClockTextInvalid(t) ==
    \/ CountChar(t, ":") > 1
    \/ ~IsNumber(HourText(t))
    \/ ~IsNumber(MinuteText(t))
    \/ digits_value(HourText(t)) > 12
    \/ digits_value(MinuteText(t)) > 59

ClockOf(t) ==
    [hour |-> digits_value(HourText(t)), minute |-> digits_value(MinuteText(t))]

RangeStartText(t) == trim(SubSeq(t, 1, find(t, "-") - 1))

RangeEndText(t) == trim(SubSeq(t, find(t, "-") + 1, Len(t)))

RangeTokenInvalid(t) ==
    \/ CountChar(t, "-") # 1
    \/ ClockTextInvalid(RangeStartText(t))
    \/ ClockTextInvalid(RangeEndText(t))

\* The line at hand is an entry line of the tracking data.
AtEntryLine ==
    /\ HasLine
    /\ IsData(Locals, CurLine, prefix, suffix)
    /\ starts_with_in(CurLine, Digits)

\* The time-range token and the label of the line at hand.
CurToken == splitn2(CurLine, " ")[1]

CurHasLabel == Len(splitn2(CurLine, " ")) = 2

\* The entries accumulated so far, the open one included.
EntriesSoFar == push_last(entries, current_entry)

\* The lines taken so far that are entry lines with a token that is not
\* invalid (whether or not they were inside the tracking data).
GoodEntryLinesSoFar ==
    {i \in 1..idx :
        /\ starts_with_in(trim(input[i]), Digits)
        /\ ~RangeTokenInvalid(splitn2(trim(input[i]), " ")[1])}

\* C8: a labelled entry line whose time-range token is malformed or out of
\* range opens no entry and touches no total, project, start or end time; a
\* warning naming the token is recorded and the scan goes on with the next
\* line; the entries never outnumber the entry lines with a good token.
C8_BadRangeIsDroppedWithWarning ==
    /\ [][(AtEntryLine /\ CurHasLabel /\ RangeTokenInvalid(CurToken)) =>
            /\ current_entry' = None
            /\ entries' = EntriesSoFar
            /\ Len(data'.warnings) = Len(data.warnings) + 1
            /\ SubSeq(data'.warnings, 1, Len(data.warnings)) = data.warnings
            /\ LET w == data'.warnings[Len(data'.warnings)]
               IN SubSeq(w, 1, Len(CurToken) + 2)
                      = <<"Error parsing time range '">> \o CurToken \o <<"': ">>
            /\ [data' EXCEPT !.warnings = <<>>] = [data EXCEPT !.warnings = <<>>]
            /\ parsing_started'
            /\ phase' = "scan"
            /\ idx' = idx + 1]_vars
    /\ [](Len(EntriesSoFar) <= Cardinality(GoodEntryLinesSoFar))

\* Between two good entries, a labelled line with a bad token: two entries
\* and one warning at the end.
C8_Witness ==
    /\ Done
    /\ ~prefix.some
    /\ idx = 3
    /\ IsLabelledEntryLine(input[1])
    /\ Len(splitn2(trim(input[2]), " ")) = 2
    /\ starts_with_in(trim(input[2]), Digits)
    /\ RangeTokenInvalid(splitn2(trim(input[2]), " ")[1])
    /\ IsLabelledEntryLine(input[3])
    /\ Len(entries) = 2
    /\ Len(data.projects) = 2
    /\ Len(data.warnings) = 1

\* The entries with an empty project.
UnlabelledTotal ==
    SeqSum([i \in 1..Len(entries) |->
               IF entries[i].project = <<>> THEN EntryDuration(i) ELSE 0])

\* C9: an entry line with a well-formed time range and no label gives exactly
\* one 'Line missing project name' warning and opens an entry with an empty
\* project; that entry counts in total_minutes, takes part in the gaps of the
\* dead time and in start_time and end_time, and makes no ProjectSummary.
C9_UnlabelledEntryCountsWithoutProject ==
    /\ [][(AtEntryLine /\ ~CurHasLabel /\ ~RangeTokenInvalid(CurToken)) =>
            /\ data' = [data EXCEPT !.warnings =
                           Append(@, <<"Line missing project name: ">> \o CurLine)]
            /\ entries' = EntriesSoFar
            /\ current_entry' =
                  Some([start |-> ClockOf(RangeStartText(CurToken)),
                        end |-> ClockOf(RangeEndText(CurToken)),
                        project |-> <<>>,
                        notes |-> <<>>])]_vars
    /\ [](Done =>
            /\ \A k \in 1..Len(data.projects) : data.projects[k].name # <<>>
            /\ data.total_minutes =
                  UnlabelledTotal
                      + SeqSum([k \in 1..Len(data.projects) |->
                                   data.projects[k].total_minutes])
            /\ \A i \in 1..Len(entries) : entries[i].project = <<>> =>
                  /\ i = 1 => data.start_time = Some(entries[i].start)
                  /\ i = Len(entries) => data.end_time = Some(entries[i].end)
                  /\ i < Len(entries) =>
                        data.dead_time_minutes >= GapAfter(i)
                  /\ i > 1 => data.dead_time_minutes >= GapAfter(i - 1))

\* An unlabelled entry first, a labelled one six hours after it.
C9_Witness ==
    /\ Done
    /\ Len(entries) = 2
    /\ entries[1].project = <<>>
    /\ Len(data.projects) = 1
    /\ data.total_minutes = 180
    /\ data.dead_time_minutes = 360
    /\ Len(data.warnings) = 1
    /\ data.warnings[1][1] = "Line missing project name: "

(* C10: for any record r the parser returns, from_json(to_json(r)) succeeds
   and gives back r, equal on every field: total_minutes, dead_time_minutes,
   the projects (names, totals and notes, in the same order), the warnings
   (in the same order), start_time and end_time (absent when r's is).       *)
C10_JsonRoundTrip ==
    restored.some =>
        /\ json.some /\ json.val.ok
        /\ restored.val.ok
        /\ restored.val.val.total_minutes = data.total_minutes
        /\ restored.val.val.dead_time_minutes = data.dead_time_minutes
        /\ Len(restored.val.val.projects) = Len(data.projects)
        /\ \A k \in 1..Len(data.projects) :
              /\ restored.val.val.projects[k].name = data.projects[k].name
              /\ restored.val.val.projects[k].total_minutes
                     = data.projects[k].total_minutes
              /\ restored.val.val.projects[k].notes = data.projects[k].notes
        /\ restored.val.val.warnings = data.warnings
        /\ restored.val.val.start_time = data.start_time
        /\ restored.val.val.end_time = data.end_time
        /\ restored.val.val = data

\* A record with two projects, a name and a note with a '"' or a '\' in
\* them, a warning and both times has been serialized and read back.
C10_Witness ==
    /\ restored.some
    /\ Len(data.projects) = 2
    /\ \E k \in 1..2 : \E i \in 1..Len(data.projects[k].name) :
          data.projects[k].name[i] = "\""
    /\ \E k \in 1..2 : \E n \in 1..Len(data.projects[k].notes) :
          \E i \in 1..Len(data.projects[k].notes[n]) :
              data.projects[k].notes[n][i] \in {"\"", "\\"}
    /\ Len(data.warnings) > 0
    /\ data.start_time.some

\* A record without entries, its times absent, has been read back.
C10_WitnessAbsent ==
    /\ restored.some
    /\ ~data.start_time.some
    /\ ~data.end_time.some
    /\ Len(data.warnings) > 0

(* ------------------------- start and stop ------------------------------ *)

\* The i-th line of the input, trimmed.
Line(i) == trim(input[i])

\* The locals and the record are as the function made them at its head.
Untouched ==
    /\ entries = <<>>
    /\ current_entry = None
    /\ data = TimeTrackingData_new

\* The lines taken so far whose beginning is a time range.
RangeLinesTaken == {i \in 1..idx : time_regex_is_match(Line(i))}

\* The first of a non-empty set of line numbers.
First(S) == CHOOSE i \in S : \A j \in S : i <= j

\* The first entry the scan has opened, if any.
FirstEntry == IF Len(entries) > 0 THEN Some(entries[1]) ELSE current_entry

(* C11: with no prefix marker, tracking starts at the first non-blank trimmed
   line whose beginning matches digit{1,2}(:digit{2})?-digit{1,2}(:digit{2})?.
   Until that line is taken there is no entry, no note and no warning and the
   tracking has not started, whatever the lines before it begin with; once it
   is taken the tracking has started and that line was handled as an entry
   line: it gave the first entry, or the first warning.                      *)
C11_StartsAtFirstTimeRange ==
    ~prefix.some =>
        /\ RangeLinesTaken = {} => Untouched /\ ~parsing_started
        /\ RangeLinesTaken # {} =>
              LET k == First(RangeLinesTaken)
                  parts == splitn2(Line(k), " ")
                  range == parse_time_range(parts[1])
              IN /\ parsing_started
                 /\ range.ok =>
                       /\ FirstEntry.some
                       /\ FirstEntry.val.start = range.val.start
                       /\ FirstEntry.val.end = range.val.end
                       /\ FirstEntry.val.project
                              = (IF Len(parts) = 2 THEN trim(parts[2]) ELSE <<>>)
                 /\ ~range.ok \/ Len(parts) < 2 =>
                       /\ Len(data.warnings) >= 1
                       /\ \E i \in 1..Len(data.warnings[1]) :
                              data.warnings[1][i] = Line(k)[1]

\* Without a prefix marker, two lines that begin with a digit and with a '-'
\* came before the first time range, and the entry of that line was returned.
C11_Witness ==
    /\ Done
    /\ ~prefix.some
    /\ Len(input) = 3
    /\ starts_with_in(Line(1), Digits) /\ ~time_regex_is_match(Line(1))
    /\ starts_with(Line(2), <<"-">>)
    /\ time_regex_is_match(Line(3))
    /\ Len(entries) = 1
    /\ data.warnings = <<>>

\* The lines taken so far that start with the prefix marker.
MarkerLinesTaken ==
    {i \in 1..idx : Line(i) # <<>> /\ starts_with(Line(i), prefix.val)}

(* C12: with a prefix marker, tracking starts at the first line that starts
   with the marker.  Until that line is taken the tracking has not started
   and there is no entry, no note and no warning, even after a well-formed
   entry line; when the marker line has just been taken there still is none
   (the marker line is not data); and the line after it is data whether or
   not it matches the time-range pattern: when it begins with a digit it
   gives an entry or a warning.                                              *)
C12_StartsAfterPrefixMarker ==
    prefix.some =>
        /\ MarkerLinesTaken = {} => Untouched /\ ~parsing_started
        /\ MarkerLinesTaken # {} =>
              LET k == First(MarkerLinesTaken)
              IN /\ parsing_started
                 /\ idx = k /\ phase = "scan" => Untouched
                 /\ idx = k + 1 /\ phase = "scan"
                        /\ starts_with_in(Line(k + 1), Digits) =>
                       \/ current_entry.some
                       \/ Len(data.warnings) = 1

\* With the prefix marker, a well-formed entry line came before the marker
\* line and a line that begins with a digit without being a time range came
\* right after it: the first gave nothing, the second a warning.
C12_Witness ==
    /\ prefix.some
    /\ phase = "scan"
    /\ idx = 3
    /\ IsLabelledEntryLine(input[1])
    /\ starts_with(Line(2), prefix.val)
    /\ starts_with_in(Line(3), Digits) /\ ~time_regex_is_match(Line(3))
    /\ Len(data.warnings) = 1
    /\ entries = <<>>

\* The non-blank lines taken so far as data: after the prefix marker line, or
\* from the first time range on when there is no prefix marker.
DataLinesTaken ==
    IF prefix.some
    THEN IF MarkerLinesTaken = {} THEN {}
         ELSE {i \in 1..idx : i > First(MarkerLinesTaken) /\ Line(i) # <<>>}
    ELSE IF RangeLinesTaken = {} THEN {}
         ELSE {i \in 1..idx : i >= First(RangeLinesTaken) /\ Line(i) # <<>>}

(* C13: with a suffix marker, once tracking has started the scan stops at the
   first data line that starts with the marker and at no other line: no data
   line taken starts with the marker; when the function returns before the
   end of the input the line it stopped at starts with the marker; the record
   returned is the record of the input cut before that line; and a line
   taken before it that does not begin with a digit, whatever it begins with,
   is the last note of the open entry.                                       *)
C13_StopsAtSuffixMarkerOnly ==
    suffix.some =>
        /\ \A i \in DataLinesTaken : ~starts_with(Line(i), suffix.val)
        /\ Done /\ idx < Len(input) =>
              /\ Line(idx + 1) # <<>>
              /\ starts_with(Line(idx + 1), suffix.val)
              /\ data \in parse_time_tracking_data(SubSeq(input, 1, idx),
                                                   prefix, suffix)
        /\ phase = "scan" /\ idx \in DataLinesTaken /\ current_entry.some
              /\ ~starts_with_in(Line(idx), Digits) =>
              /\ Len(current_entry.val.notes) >= 1
              /\ current_entry.val.notes[Len(current_entry.val.notes)]
                     = note_text(Line(idx))

\* With the suffix marker, an entry, then a line that begins with '#', then
\* the marker line: the '#' line is a note of the entry returned.
C13_Witness ==
    /\ suffix.some
    /\ ~prefix.some
    /\ Done
    /\ Len(input) = 3
    /\ idx = 2
    /\ starts_with(Line(3), suffix.val)
    /\ starts_with(Line(2), <<"#">>)
    /\ Len(data.projects) = 1
    /\ data.projects[1].notes = <<Line(2)>>

\* The letters of the model: the lowercase and uppercase ones, and one that
\* has no case.
Letters == Lowercase \cup Uppercase \cup {"א"}

\* The line begins with a digit, '-', '*', a space or any letter.
BeginsAsClaimed(l) ==
    starts_with_in(l, Digits \cup {"-", "*", " "} \cup Letters)

\* The line begins with a numeric character, '-', '*', a space, or a
\* lowercase or uppercase letter.
BeginsWithNumericDashStarOrCasedLetter(l) ==
    starts_with_in(l, Numeric \cup {"-", "*", " "} \cup Lowercase \cup Uppercase)

(* C14, as stated: with no suffix marker, once tracking has started the scan
   goes on over each line that begins with a digit, '-', '*', a space or any
   letter and stops at the first line that begins with anything else.        *)
C14_ContinuesOverAnyLetter ==
    ~suffix.some =>
        /\ \A i \in DataLinesTaken : BeginsAsClaimed(Line(i))
        /\ Done /\ idx < Len(input) => ~BeginsAsClaimed(Line(idx + 1))

(* C14, amended: with no suffix marker, once tracking has started the scan
   goes on over each line that begins with a numeric character, '-', '*', or
   a lowercase or uppercase letter, and stops at the first line that begins
   with anything else, a letter without case included; the record returned is
   the record of the input cut before that line.                             *)
C14_ContinuesOverCasedLetters ==
    ~suffix.some =>
        /\ \A i \in DataLinesTaken :
              BeginsWithNumericDashStarOrCasedLetter(Line(i))
        /\ Done /\ idx < Len(input) =>
              /\ Line(idx + 1) # <<>>
              /\ ~BeginsWithNumericDashStarOrCasedLetter(Line(idx + 1))
              /\ data \in parse_time_tracking_data(SubSeq(input, 1, idx),
                                                   prefix, suffix)

\* An entry, a line that begins with an uppercase letter taken as its note,
\* then the stop at a line that begins with a letter without case.
C14_Witness ==
    /\ Done
    /\ Len(input) = 3
    /\ idx = 2
    /\ time_regex_is_match(Line(1))
    /\ starts_with_in(Line(2), Uppercase)
    /\ starts_with(Line(3), <<"א">>)
    /\ Len(data.projects) = 1
    /\ data.projects[1].notes = <<Line(2)>>

\* The lines of the whole input whose beginning is a time range.
RangeLines == {i \in 1..Len(input) : time_regex_is_match(Line(i))}

\* The lines after the start of the tracking that begin with a letter: free
\* text, neither a time-range entry line nor a '-' or '*' note line.
FreeTextLines ==
    IF RangeLines = {} THEN {}
    ELSE {i \in 1..Len(input) :
             i > First(RangeLines) /\ starts_with_in(Line(i), Letters)}

(* C15: with no markers, a free-text line after the tracking block (a
   sentence that begins with a letter) ends the parsing: the record returned
   has the total and the projects, notes included, of the input cut before
   the first such line, so that line adds no note and the entry lines after
   it add nothing.                                                           *)
C15_FreeTextEndsParsing ==
    Done /\ ~prefix.some /\ ~suffix.some /\ FreeTextLines # {} =>
        \E r \in parse_time_tracking_data(
                     SubSeq(input, 1, First(FreeTextLines) - 1), None, None) :
            /\ r.total_minutes = data.total_minutes
            /\ r.projects = data.projects

(* ------------------------------ times ---------------------------------- *)

\* Every Time the function holds: those of the entries, of the open entry
\* and of the record.
TimesHeld ==
    {entries[i].start : i \in 1..Len(entries)}
        \cup {entries[i].end : i \in 1..Len(entries)}
        \cup (IF current_entry.some
              THEN {current_entry.val.start, current_entry.val.end} ELSE {})
        \cup (IF data.start_time.some THEN {data.start_time.val} ELSE {})
        \cup (IF data.end_time.some THEN {data.end_time.val} ELSE {})

(* C16: every Time built while parsing an entry line has its hour in 1..12
   and its minute in 0..59 (construction fails for hour 0, for hour 13 or
   more and for minute 60 or more), so every Time of an entry and of
   start_time and end_time is within these ranges.                           *)
C16_EveryTimeHasHour1To12 ==
    \A t \in TimesHeld : t.hour \in 1..12 /\ t.minute \in 0..59

(* C17: for every Time built from the text of an entry line, to_minutes is
   the minute when the hour is 12 and hour * 60 + minute otherwise, and it
   lies between 0 and 719.                                                   *)
C17_ToMinutesWithinHalfDay ==
    \A t \in TimesHeld :
        /\ to_minutes(t) \in 0..719
        /\ t.hour = 12 => to_minutes(t) = t.minute
        /\ t.hour # 12 => to_minutes(t) = t.hour * 60 + t.minute

\* Entries that start at 11:59 and end at 12:00: the largest and the smallest
\* value of to_minutes.
C17_Witness ==
    /\ Done
    /\ \E t \in TimesHeld : t.hour = 12 /\ t.minute = 0 /\ to_minutes(t) = 0
    /\ \E t \in TimesHeld : t.hour = 11 /\ t.minute = 59 /\ to_minutes(t) = 719
    /\ \E t \in TimesHeld : t.hour = 12 /\ t.minute = 59

(* C18: for all Times start and end, duration_minutes(start, end) is
   end - start in to_minutes space when end >= start and 720 + end - start
   otherwise; it lies between 0 and 719, so it is never negative and the u32
   cast of TimeEntry::duration_minutes keeps its value; and
   duration_minutes(t, t) is 0.                                              *)
C18_DurationWithinHalfDay ==
    /\ \A s \in TimesHeld : \A e \in TimesHeld :
          LET d == Time_duration_minutes(s, e)
          IN /\ d \in 0..719
             /\ to_minutes(e) >= to_minutes(s) => d = to_minutes(e) - to_minutes(s)
             /\ to_minutes(e) < to_minutes(s)
                    => d = 720 + to_minutes(e) - to_minutes(s)
             /\ s = e => d = 0
    /\ \A i \in 1..Len(entries) :
          duration_minutes(entries[i])
              = Time_duration_minutes(entries[i].start, entries[i].end)

\* An entry from 7:00 to 7:00 (no minutes), one from 11:59 to 12:00 (across
\* the wrap) and one from 1:00 to 12:45 (705 minutes) were returned.
C18_Witness ==
    /\ Done
    /\ Len(entries) = 3
    /\ \E i \in 1..3 : entries[i].start = entries[i].end /\ EntryDuration(i) = 0
    /\ \E i \in 1..3 :
          /\ to_minutes(entries[i].end) < to_minutes(entries[i].start)
          /\ EntryDuration(i) = 1
    /\ \E i \in 1..3 : EntryDuration(i) = 705
    /\ data.total_minutes = 706

(* ----------------------- the warnings of the passes -------------------- *)

\* How many times a text is in a list of texts.
Count(texts, t) == Cardinality({k \in 1..Len(texts) : texts[k] = t})

\* The entries with the start and end of entry i whose span is over six hours.
LongEntriesLike(i) ==
    {j \in 1..Len(entries) :
        /\ entries[j].start = entries[i].start
        /\ entries[j].end = entries[i].end
        /\ EntryDuration(j) > 360}

\* The warnings of the record that are long-entry warnings.
LongEntryWarnings ==
    {k \in 1..Len(data.warnings) :
        starts_with(data.warnings[k], <<"Time period ">>)}

(* C19: in the record parse_time_tracking_data returns, an entry has a
   long-entry warning ("Time period start-end appears to be longer than 6
   hours...") exactly when its own duration_minutes is above 360: an entry of
   360 minutes or less has none, and each entry above 360 has one, no more.  *)
C19_LongEntryWarningAbove360 ==
    Done =>
        /\ \A i \in 1..Len(entries) :
              Count(data.warnings, long_entry_warning(entries[i]))
                  = Cardinality(LongEntriesLike(i))
        /\ Cardinality(LongEntryWarnings)
               = Cardinality({i \in 1..Len(entries) : EntryDuration(i) > 360})

\* An entry of exactly 360 minutes, one of 361 and one of 705 were returned:
\* two long-entry warnings.
C19_Witness ==
    /\ Done
    /\ Len(entries) = 3
    /\ \E i \in 1..3 : EntryDuration(i) = 360
    /\ \E i \in 1..3 : EntryDuration(i) = 361
    /\ \E i \in 1..3 : EntryDuration(i) = 705
    /\ Cardinality(LongEntryWarnings) = 2

\* The pairs of consecutive entries.
Pairs == 1..(Len(entries) - 1)

\* The pairs with the times of pair i around the gap, whose gap is over six
\* hours.
LongGapsLike(i) ==
    {j \in Pairs :
        /\ entries[j].end = entries[i].end
        /\ entries[j + 1].start = entries[i + 1].start
        /\ GapAfter(j) > 360}

\* The warnings of the record that are long-gap warnings.
LongGapWarnings ==
    {k \in 1..Len(data.warnings) :
        starts_with(data.warnings[k], <<"Gap from ">>)}

\* The gaps after the entries, those of six hours or less counted as 0, and
\* those over six hours counted as 0.
LongGaps == [i \in Pairs |-> IF GapAfter(i) > 360 THEN GapAfter(i) ELSE 0]

ShortGaps == [i \in Pairs |-> IF GapAfter(i) > 360 THEN 0 ELSE GapAfter(i)]

(* C20: for each pair of consecutive entries in input order there is a
   long-gap warning exactly when the gap from the first entry's end to the
   second entry's start, the second taken as later, is above 360 minutes; and
   every gap with a warning is in dead_time_minutes in full: a next start 15
   minutes before the previous end is a gap of 705 minutes.                  *)
C20_LongGapWarnedAndCounted ==
    Done =>
        /\ \A i \in Pairs :
              /\ Count(data.warnings,
                       long_gap_warning(entries[i].end, entries[i + 1].start))
                     = Cardinality(LongGapsLike(i))
              /\ to_minutes(entries[i].end) - to_minutes(entries[i + 1].start) = 15
                     => LongGaps[i] = 705
        /\ Cardinality(LongGapWarnings)
               = Cardinality({i \in Pairs : GapAfter(i) > 360})
        /\ data.dead_time_minutes = SeqSum(LongGaps) + SeqSum(ShortGaps)

\* Three entries: the second starts 15 minutes before the first ends, the
\* third five hours after the second ends: one warning, 705 + 300 minutes.
C20_Witness ==
    /\ Done
    /\ Len(entries) = 3
    /\ GapAfter(1) = 705
    /\ GapAfter(2) = 300
    /\ Cardinality(LongGapWarnings) = 1
    /\ data.dead_time_minutes = 1005

(* ------------------------ the two durations ---------------------------- *)

\* Every Time with its hour in 1..12 and its minute in 0..59.
ValidTimes == [hour : 1..12, minute : 0..59]

(* C21, as stated: there are valid Times a and b for which
   chronological_duration_minutes(a, b) differs from duration_minutes(a, b);
   for equal times the gap operator gives 0 and the span operator a full
   period.                                                                   *)
C21_GapDiffersFromSpanSomewhere ==
    Len(entries) >= 2 =>
    /\ \E a \in ValidTimes : \E b \in ValidTimes :
          chronological_duration_minutes(a, b) # Time_duration_minutes(a, b)
    /\ \E a \in ValidTimes :
          /\ chronological_duration_minutes(a, a) = 0
          /\ Time_duration_minutes(a, a) = 720

(* C21, amended: chronological_duration_minutes and duration_minutes give the
   same value for every two Times; for equal times both give 0, neither a
   full period.  So each gap between consecutive entries is also the span
   from the first entry's end to the next entry's start.                     *)
C21_GapEqualsSpan ==
    /\ \A a \in TimesHeld : \A b \in TimesHeld :
          /\ chronological_duration_minutes(a, b) = Time_duration_minutes(a, b)
          /\ a = b =>
                /\ chronological_duration_minutes(a, b) = 0
                /\ Time_duration_minutes(a, b) = 0
    /\ Done =>
          data.dead_time_minutes
              = SeqSum([i \in Pairs |->
                           Time_duration_minutes(entries[i].end,
                                                 entries[i + 1].start)])

\* Two entries returned, the second starting when the first ends (equal
\* times around the gap) and the third starting before the second ends (the
\* wrap).
C21_Witness ==
    /\ Done
    /\ Len(entries) = 3
    /\ entries[1].end = entries[2].start
    /\ to_minutes(entries[3].start) < to_minutes(entries[2].end)
    /\ data.dead_time_minutes
           = chronological_duration_minutes(entries[2].end, entries[3].start)
    /\ data.dead_time_minutes > 0

(* ------------------------------ note lines ----------------------------- *)

\* The last entry line taken so far (0 when there is none).
LastEntryLine ==
    LET S == {i \in 1..idx : IsEntryLine(Line(i))}
    IN IF S = {} THEN 0 ELSE CHOOSE i \in S : \A j \in S : j <= i

\* The lines taken since the last entry line.
LinesSinceEntry == [j \in 1..(idx - LastEntryLine) |-> Line(LastEntryLine + j)]

\* A note line less one leading marker, '-' or '*', whichever matches.
LessOneMarker(line) ==
    trim(IF starts_with(line, <<"-">>) \/ starts_with(line, <<"*">>)
         THEN Tail(line) ELSE line)

\* A note line less a leading '-' and a '*' that follows it, or less one
\* leading marker.
LessDashThenStar(line) ==
    trim(IF starts_with(line, <<"-", "*">>) THEN Tail(Tail(line))
         ELSE IF starts_with(line, <<"-">>) \/ starts_with(line, <<"*">>)
              THEN Tail(line) ELSE line)

(* C22, as stated: a note line has at most one leading marker removed:
   exactly one leading '-' or one leading '*' is stripped (never both), then
   surrounding whitespace is trimmed, and the remainder is the stored note;
   the note line '-*x' is stored as '*x'.                                    *)
C22_AtMostOneMarkerStripped ==
    (phase = "scan" /\ current_entry.some) =>
        current_entry.val.notes
            = [j \in DOMAIN LinesSinceEntry |-> LessOneMarker(LinesSinceEntry[j])]

(* C22, amended: a note line has a leading '-' removed and then a leading '*'
   removed (both when the line begins with '-*', one when it begins with one
   marker or with '*-'), then surrounding whitespace is trimmed, and the
   remainder is the stored note; the note line '-*x' is stored as 'x'.       *)
C22_DashThenStarStripped ==
    (phase = "scan" /\ current_entry.some) =>
        current_entry.val.notes
            = [j \in DOMAIN LinesSinceEntry |-> LessDashThenStar(LinesSinceEntry[j])]

\* '-*m' was stored as 'm' and then '*-m' as '-m'.
C22_Witness ==
    /\ phase = "scan"
    /\ idx = 3
    /\ Line(2) = <<"-", "*", "m">>
    /\ Line(3) = <<"*", "-", "m">>
    /\ current_entry.some
    /\ current_entry.val.notes = << <<"m">>, <<"-", "m">> >>

\* The scan is in the tracking data, at a line it continues over.
ContinuesOverCurLine ==
    /\ HasLine
    /\ parsing_started
    /\ should_continue_parsing(CurLine, suffix)

\* The step put the text of the current line at the end of the open entry's
\* notes, or, with no entry open, left none open; it changed nothing else.
NoteStep ==
    /\ IF current_entry.some
       THEN /\ current_entry'.some
            /\ current_entry'.val
                   = [current_entry.val EXCEPT
                         !.notes = Append(@, LessDashThenStar(CurLine))]
       ELSE current_entry' = None
    /\ entries' = entries
    /\ data' = data
    /\ phase' = phase
    /\ parsing_started' = parsing_started

(* C23, as stated: during parsing, a line that does not start with a digit is
   appended to the end of the notes of the currently open entry and changes
   nothing else; when no entry is open it is discarded with no effect: no
   entry, no note and no warning.                                            *)
C23_NonDigitLineIsNote ==
    [][ContinuesOverCurLine /\ ~starts_with_in(CurLine, Digits) => NoteStep]_vars

(* C23, amended: during parsing, a line that does not start with a numeric
   character (char::is_numeric, which is more than the digits) is appended to
   the end of the notes of the currently open entry and changes nothing else;
   when no entry is open it is discarded with no effect: no entry, no note
   and no warning.                                                           *)
C23_NonNumericLineIsNote ==
    [][ContinuesOverCurLine /\ ~starts_with_in(CurLine, Numeric) => NoteStep]_vars

\* Two notes were appended to the open entry, in the order of their lines.
C23_Witness ==
    /\ phase = "scan"
    /\ idx = 3
    /\ current_entry.some
    /\ Len(current_entry.val.notes) = 2
    /\ current_entry.val.notes[1] # current_entry.val.notes[2]
    /\ current_entry.val.notes[2] = LessDashThenStar(Line(3))
    /\ entries = <<>>
    /\ data = TimeTrackingData_new

(* --------------------------- parse warnings ---------------------------- *)

\* The entry lines taken so far as data.
EntryLinesTaken == {i \in DataLinesTaken : starts_with_in(Line(i), Digits)}

\* The time-range token of line i, and whether a label follows it.
Token(i) == splitn2(Line(i), " ")[1]

HasLabel(i) == Len(splitn2(Line(i), " ")) = 2

\* The entry lines taken so far whose time-range token fails to parse.
BadRangeLines == {i \in EntryLinesTaken : ~parse_time_range(Token(i)).ok}

\* The warning about the time range of line i.
RangeWarning(i) ==
    <<"Error parsing time range '">> \o Token(i) \o <<"': ">>
        \o parse_time_range(Token(i)).err

\* The warning about the missing label of line i.
LabelWarning(i) == <<"Line missing project name: ">> \o Line(i)

\* The warnings of the record about a time range.
RangeWarnings ==
    {k \in 1..Len(data.warnings) :
        starts_with(data.warnings[k], <<"Error parsing time range '">>)}

(* C24, as stated: every entry line whose time-range token fails to parse,
   whether or not the line carries a trailing label, adds the warning
   "Error parsing time range '<token>': <reason>" to the warnings list.      *)
C24_EveryBadRangeWarned ==
    /\ \A i \in BadRangeLines : Count(data.warnings, RangeWarning(i)) >= 1
    /\ Cardinality(RangeWarnings) = Cardinality(BadRangeLines)

(* C24, amended: every entry line that carries a trailing label and whose
   time-range token fails to parse adds the warning "Error parsing time range
   '<token>': <reason>" to the warnings list; an entry line without a label
   whose token fails to parse adds "Line missing project name: <line>" and no
   warning about the time range.                                             *)
C24_LabelledBadRangeWarned ==
    /\ \A i \in BadRangeLines :
          /\ Count(data.warnings, RangeWarning(i))
                 = Cardinality({j \in BadRangeLines :
                                   HasLabel(j) /\ Token(j) = Token(i)})
          /\ ~HasLabel(i) => Count(data.warnings, LabelWarning(i)) >= 1
    /\ Cardinality(RangeWarnings)
           = Cardinality({i \in BadRangeLines : HasLabel(i)})

\* '25-26 x' and '25-26' were taken: one warning about a time range, one
\* about the missing label, and no entry.
C24_Witness ==
    /\ Cardinality({i \in BadRangeLines : HasLabel(i)}) = 1
    /\ Cardinality({i \in BadRangeLines : ~HasLabel(i)}) = 1
    /\ Len(data.warnings) = 2
    /\ Cardinality(RangeWarnings) = 1
    /\ EntriesSoFar = <<>>

\* The warnings the loop gives for the lines up to line n, in the order of
\* the lines: one for an entry line without a label, one for a labelled entry
\* line whose time range fails to parse.
RECURSIVE ParseWarningsUpTo(_)
ParseWarningsUpTo(n) ==
    IF n = 0 THEN <<>>
    ELSE ParseWarningsUpTo(n - 1)
             \o (IF n \notin EntryLinesTaken THEN <<>>
                 ELSE IF ~HasLabel(n) THEN <<LabelWarning(n)>>
                 ELSE IF n \in BadRangeLines THEN <<RangeWarning(n)>>
                 ELSE <<>>)

\* One warning for each of the first n entries that is longer than six hours,
\* in the order of the entries.
RECURSIVE LongEntryWarningsUpTo(_)
LongEntryWarningsUpTo(n) ==
    IF n = 0 THEN <<>>
    ELSE LongEntryWarningsUpTo(n - 1)
             \o (IF EntryDuration(n) > 360
                 THEN <<long_entry_warning(entries[n])>> ELSE <<>>)

\* One warning for each of the first n pairs with a gap longer than six hours,
\* in the order of the pairs.
RECURSIVE LongGapWarningsUpTo(_)
LongGapWarningsUpTo(n) ==
    IF n = 0 THEN <<>>
    ELSE LongGapWarningsUpTo(n - 1)
             \o (IF GapAfter(n) > 360
                 THEN <<long_gap_warning(entries[n].end, entries[n + 1].start)>>
                 ELSE <<>>)

(* C25: the warnings list is in emission order and contains nothing else:
   first the warnings of the lines (missing project name, time-range error)
   in the order of their input lines, then one warning per long entry in
   entry order, then one warning per long gap in pair order; while the lines
   are read it holds the warnings of the lines only.                         *)
C25_WarningsInEmissionOrder ==
    /\ phase = "scan" => data.warnings = ParseWarningsUpTo(idx)
    /\ Done =>
          data.warnings
              = ParseWarningsUpTo(idx)
                    \o LongEntryWarningsUpTo(Len(entries))
                    \o LongGapWarningsUpTo(Cardinality(Pairs))

\* A record with a warning of a line, then a long-entry warning, then a
\* long-gap warning.
C25_Witness ==
    /\ Done
    /\ Len(data.warnings) = 3
    /\ ParseWarningsUpTo(idx) = <<data.warnings[1]>>
    /\ LongEntryWarnings = {2}
    /\ LongGapWarnings = {3}

(* ------------------------- the phases of the scan ---------------------- *)

\* Seeking (0), Parsing (1), Done (2).
PhaseRank == IF phase = "done" THEN 2 ELSE IF parsing_started THEN 1 ELSE 0

\* The step handled the current line as an entry line: the open entry was
\* pushed, and the line gave a warning or opened an entry without notes.
EntryStep ==
    /\ entries' = push_last(entries, current_entry)
    /\ \/ Len(data'.warnings) = Len(data.warnings) + 1
       \/ current_entry'.some /\ current_entry'.val.notes = <<>>
    /\ phase' = phase
    /\ parsing_started'

(* C26: the phase of the parser only moves forward, Seeking to Parsing to
   Done.  Once Parsing has begun no line is skipped as preamble: a line the
   scan continues over is handled as an entry line or as a note, whether or
   not it matches the start pattern.  Once a stop line is hit nothing changes
   any more, and the record is the record of the input cut before the stop
   line, whatever the later lines are.                                       *)
C26_PhaseOnlyMovesForward ==
    [][/\ PhaseRank' >= PhaseRank
       /\ ContinuesOverCurLine =>
             IF starts_with_in(CurLine, Numeric) THEN EntryStep ELSE NoteStep
       /\ (phase' = "done" /\ idx' < Len(input)) =>
             data' \in parse_time_tracking_data(SubSeq(input, 1, idx'),
                                                prefix, suffix)
       /\ phase = "done" => UNCHANGED vars]_vars

\* The scan stopped at the second line with one entry, and the third line
\* matches the start pattern.
C26_Witness ==
    /\ Done
    /\ Len(input) = 3
    /\ idx = 1
    /\ ~should_continue_parsing(Line(2), suffix)
    /\ is_time_tracking_line(Line(3), prefix)
    /\ Len(entries) = 1
    /\ data.total_minutes = EntryDuration(1)

(* ------------------------ the passes over the entries ------------------ *)

\* Every entry is counted in full: in total_minutes, in the total of its
\* project when it has one, and in start_time and end_time.
CountedInFull ==
    /\ data.total_minutes = SeqSum([i \in 1..Len(entries) |-> EntryDuration(i)])
    /\ \A i \in 1..Len(entries) :
          entries[i].project # <<>> =>
              \E k \in 1..Len(data.projects) :
                  /\ data.projects[k].name = entries[i].project
                  /\ data.projects[k].total_minutes = LabelTotal(entries[i].project)
                  /\ data.projects[k].total_minutes >= EntryDuration(i)
    /\ Len(entries) > 0 =>
          /\ data.start_time = Some(entries[1].start)
          /\ data.end_time = Some(entries[Len(entries)].end)

(* C27: the long-entry and long-gap checks only append to warnings.  When the
   function returns, the entries are the entries the loop accumulated, none
   removed or altered; each one, with or without a warning, is counted in
   full in total_minutes and in its project's total; start_time and end_time
   are those of the first and the last entry; and the warnings recorded by
   the loop are kept at the head of the list.                                *)
C27_PassesOnlyAppendWarnings ==
    [][(phase = "scan" /\ phase' = "done") =>
          /\ entries' = push_last(entries, current_entry)
          /\ Len(data'.warnings) >= Len(data.warnings)
          /\ SubSeq(data'.warnings, 1, Len(data.warnings)) = data.warnings
          /\ CountedInFull']_vars

\* A record with a warning of the loop, a labelled entry longer than six
\* hours and a gap longer than six hours.
C27_Witness ==
    /\ Done
    /\ Len(data.warnings) >= 3
    /\ starts_with(data.warnings[1], <<"Line missing project name: ">>)
    /\ \E i \in 1..Len(entries) :
          /\ EntryDuration(i) > 360
          /\ entries[i].project # <<>>
          /\ Count(data.warnings, long_entry_warning(entries[i])) = 1
    /\ \E i \in Pairs : GapAfter(i) > 360
    /\ LongGapWarnings # {}
    /\ CountedInFull

(* ------------------------------ hours ---------------------------------- *)

\* The Times of the decoded record.
TimesRestored ==
    IF restored.some /\ restored.val.ok
    THEN (IF restored.val.val.start_time.some
          THEN {restored.val.val.start_time.val} ELSE {})
         \cup (IF restored.val.val.end_time.some
               THEN {restored.val.val.end_time.val} ELSE {})
    ELSE {}

(* C28: no Hour outside the range of the type can exist: TryFrom<u8>, FromStr
   and the decoding of a record with from_json all reject an hour such as 13,
   so the start_time and end_time of a decoded record hold hours TryFrom<u8>
   accepts.                                                                  *)
C28_NoHourOutOfRange ==
    /\ ~Hour_try_from(13).ok
    /\ ~Hour_from_str(<<"1", "3">>).ok
    /\ \A t \in TimesRestored : Hour_try_from(t.hour).ok

(* ----------------------- project totals and the total ------------------ *)

\* The sum of total_minutes over the ProjectSummaries of the record.
ProjectsTotal ==
    SeqSum([k \in 1..Len(data.projects) |-> data.projects[k].total_minutes])

(* C29: in every record returned, the sum of total_minutes over all
   ProjectSummaries equals the record's total_minutes minus the summed
   durations of the entries with an empty project label; so it never exceeds
   total_minutes, and equals it when every entry is labelled.                *)
C29_ProjectTotalsSumToLabelledTotal ==
    Done =>
        /\ ProjectsTotal = data.total_minutes - UnlabelledTotal
        /\ ProjectsTotal <= data.total_minutes
        /\ ~HasUnlabelled => ProjectsTotal = data.total_minutes

\* A record of two entries with one label and an entry without a label: the
\* projects sum to less than the total.
C29_Witness ==
    /\ Done
    /\ Len(entries) = 3
    /\ HasUnlabelled
    /\ Len(data.projects) = 1
    /\ ProjectsTotal > 0
    /\ ProjectsTotal < data.total_minutes
    /\ ProjectsTotal = data.total_minutes - UnlabelledTotal

(* ------------------- entry lines close the open entry ------------------ *)

\* A set of line numbers as a sequence in ascending order.
RECURSIVE Ascending(_)
Ascending(S) ==
    IF S = {} THEN <<>> ELSE <<First(S)>> \o Ascending(S \ {First(S)})

\* The entry lines taken so far whose time range parses: one for each entry.
OpeningLines == Ascending(EntryLinesTaken \ BadRangeLines)

\* The notes of the lines taken after line i, up to the next entry line.
RECURSIVE NotesAfter(_)
NotesAfter(i) ==
    IF i + 1 > idx \/ starts_with_in(Line(i + 1), Digits) THEN <<>>
    ELSE <<LessDashThenStar(Line(i + 1))>> \o NotesAfter(i + 1)

(* C30: a line starting with a digit closes the open entry before it is
   parsed, even when its own time range then fails to parse: the step pushes
   the open entry, and the entry it leaves open, if any, has no notes.  So
   each entry holds the notes of the lines between its own line and the next
   entry line, and no others: notes following a malformed entry line are
   discarded, and notes following an unlabelled entry line appear in no
   ProjectSummary.                                                           *)
C30_DigitLineClosesOpenEntry ==
    /\ Len(EntriesSoFar) = Len(OpeningLines)
    /\ \A k \in 1..Len(OpeningLines) :
          EntriesSoFar[k].notes = NotesAfter(OpeningLines[k])
    /\ (phase = "scan" /\ idx > 0 /\ idx \in BadRangeLines) => current_entry = None
    /\ Done =>
          \A k \in 1..Len(data.projects) :
              /\ data.projects[k].name # <<>>
              /\ data.projects[k].notes = LabelNotes(entries, data.projects[k].name)

\* An entry, a malformed entry line and a note: the note is on no entry and
\* in no ProjectSummary.
C30_Witness ==
    /\ Done
    /\ idx = 3
    /\ OpeningLines = <<1>>
    /\ BadRangeLines = {2}
    /\ ~starts_with_in(Line(3), Digits)
    /\ Len(entries) = 1
    /\ entries[1].notes = <<>>
    /\ Len(data.projects) = 1
    /\ data.projects[1].notes = <<>>

====
